---- MODULE Spec2Model ----
(***************************************************************************)
(* Model of the Gemini image-analysis client: the batch orchestrator       *)
(* (GeminiClient.batchAnalyze), the single-item pipeline (analyzeImage),   *)
(* the command builder, the process runner (executeGeminiCommand) with the *)
(* child process as environment, and the error classification helpers.     *)
(*                                                                         *)
(* Text is modelled as a sequence of characters (stdout) or of words       *)
(* (stderr, error messages).  Temperatures are in tenths (7 is 0.7).       *)
(* Input paths are named by their position in the input list.  The child   *)
(* processes, the spawn timer and fs.stat are the environment: their       *)
(* events are the actions StdoutData .. MetadataFail below.                *)
(*                                                                         *)
(* Spec and FairSpec run one batchAnalyze call; UpdateSpec adds            *)
(* updateConfig calls at any point of it; BuildSpec runs the command       *)
(* builder and ParseSpec the result extractor of one analyzeImage call,    *)
(* over every config, request and raw text of their input sets.            *)
(* LoadSpec constructs the ConfigManager from every environment of Envs;   *)
(* ServerSpec runs the three tool handlers of GeminiMCPServer, one action  *)
(* per stretch of a handler between two awaits, over a small file system.  *)
(***************************************************************************)
EXTENDS Integers, Sequences, FiniteSets

(* ------------------------------ bounds -------------------------------- *)
\* longest input list handed to batchAnalyze
MaxN == 4
\* number of standard-output data events the children emit in one run
MaxData == 1
\* number of abnormal events in one run: a write to standard error, the spawn
\* timer firing, an error event, a failing fs.stat
MaxFaults == 1

(* ------------------------- program constants -------------------------- *)
DEFAULT_GEMINI_CONFIG ==
  [model |-> "gemini-2.5-pro", temperature |-> 7,
   maxOutputTokens |-> 2048, language |-> "ja"]

DEFAULT_MAX_CONCURRENT_REQUESTS == 3

\* ConfigManager.getMaxConcurrentRequests, reached through the module-level
\* getMaxConcurrentRequests()
getMaxConcurrentRequests == DEFAULT_MAX_CONCURRENT_REQUESTS

\* exit status of a child that was terminated by a signal (code === null)
null == 256

(* ------------------------------ strings ------------------------------- *)
\* characters String.prototype.trim removes, within the modelled alphabet
IsWhitespace(c) == c \in {" ", "\n"}

RECURSIVE TrimStart(_)
TrimStart(s) ==
  IF s = <<>> THEN <<>>
  ELSE IF IsWhitespace(Head(s)) THEN TrimStart(Tail(s)) ELSE s

RECURSIVE TrimEnd(_)
TrimEnd(s) ==
  IF s = <<>> THEN <<>>
  ELSE IF IsWhitespace(s[Len(s)]) THEN TrimEnd(SubSeq(s, 1, Len(s) - 1)) ELSE s

\* trims the front only
trimStartOnly(s) == TrimStart(s)

\* stdout.trim()
Trim(s) == TrimEnd(TrimStart(s))

\* String.prototype.includes: sub occurs in s as a contiguous run
Includes(s, sub) ==
  \E k \in 0..(Len(s) - Len(sub)) : SubSeq(s, k + 1, k + Len(sub)) = sub

(* --------------------------- error handling --------------------------- *)
GeminiMCPError(code, message, details) ==
  [name |-> "GeminiMCPError", code |-> code, message |-> message, details |-> details]

\* a plain Error: what fs.stat rejects with
Error(message) ==
  [name |-> "Error", code |-> "NONE", message |-> message, details |-> <<>>]

authenticationFailed(details) ==
  GeminiMCPError("GEMINI_AUTH_ERROR", <<"Gemini API authentication failed">>, details)

rateLimitExceeded(details) ==
  GeminiMCPError("RATE_LIMIT_EXCEEDED", <<"rate limit reached">>, details)

analysisTimeout(timeout, details) ==
  GeminiMCPError("ANALYSIS_TIMEOUT", <<"analysis timed out (", timeout, "ms)">>,
                 [timeout |-> timeout, originalError |-> details.originalError])

networkError(message, details) ==
  GeminiMCPError("NETWORK_ERROR", <<"network error: ">> \o message, details)

\* looks for the rate-limit phrases before the authentication phrases
mapChildProcessErrorRateFirst(stderr, stdout, code) ==
  IF Includes(stderr, <<"Rate", "limit">>) \/ Includes(stderr, <<"quota">>)
  THEN rateLimitExceeded([stderr |-> stderr, stdout |-> stdout, code |-> code])
  ELSE IF Includes(stderr, <<"Authentication", "failed">>) \/ Includes(stderr, <<"Unauthorized">>)
  THEN authenticationFailed([stderr |-> stderr, stdout |-> stdout, code |-> code])
  ELSE networkError(<<"Gemini CLI execution error (code: ", code, ")">>,
                    [stderr |-> stderr, stdout |-> stdout, code |-> code])

mapChildProcessError(stderr, stdout, code) ==
  IF Includes(stderr, <<"Authentication", "failed">>) \/ Includes(stderr, <<"Unauthorized">>)
  THEN authenticationFailed([stderr |-> stderr, stdout |-> stdout, code |-> code])
  ELSE IF Includes(stderr, <<"Rate", "limit">>) \/ Includes(stderr, <<"quota">>)
  THEN rateLimitExceeded([stderr |-> stderr, stdout |-> stdout, code |-> code])
  ELSE networkError(<<"Gemini CLI execution error (code: ", code, ")">>,
                    [stderr |-> stderr, stdout |-> stdout, code |-> code])

\* never recognises a timeout
mapProcessErrorNoTimeout(message) ==
  networkError(<<"process execution error: ">> \o message, [originalError |-> message])

mapProcessError(message) ==
  IF Includes(message, <<"timeout">>)
  THEN analysisTimeout(0, [originalError |-> message])
  ELSE networkError(<<"process execution error: ">> \o message,
                    [originalError |-> message])

(* --------------------------- command builder -------------------------- *)
BasePrompt(analysisType) ==
  CASE analysisType = "describe" -> "describe what is in the image"
    [] analysisType = "ocr" -> "read the text in the image"
    [] analysisType = "classify" -> "classify the image and tag it"
    [] analysisType = "detect_objects" -> "list the objects in the image"

\* the clause for QR codes comes before the other clauses
buildAnalysisPromptQRFirst(cfg, options) ==
  LET base == <<BasePrompt(options.analysisType)>>
      detail == CASE options.detailLevel = "brief" -> <<"keep it brief">>
                  [] options.detailLevel = "detailed" -> <<"be as detailed as possible">>
                  [] OTHER -> <<>>
      conf == IF options.includeConfidence THEN <<"include confidence scores">> ELSE <<>>
      cols == IF options.extractColors THEN <<"analyse the main colors">> ELSE <<>>
      faces == IF options.detectFaces THEN <<"detect faces">> ELSE <<>>
      qr == IF options.readQRCodes THEN <<"read QR codes">> ELSE <<>>
      prompt == base \o detail \o qr \o conf \o cols \o faces
  IN  IF cfg.language = "en" THEN <<"Please respond in English.">> \o prompt
      ELSE IF cfg.language = "ja" THEN <<"respond in Japanese.">> \o prompt
      ELSE prompt

buildAnalysisPrompt(cfg, options) ==
  LET base == <<BasePrompt(options.analysisType)>>
      detail == CASE options.detailLevel = "brief" -> <<"keep it brief">>
                  [] options.detailLevel = "detailed" -> <<"be as detailed as possible">>
                  [] OTHER -> <<>>
      conf == IF options.includeConfidence THEN <<"include confidence scores">> ELSE <<>>
      cols == IF options.extractColors THEN <<"analyse the main colors">> ELSE <<>>
      faces == IF options.detectFaces THEN <<"detect faces">> ELSE <<>>
      qr == IF options.readQRCodes THEN <<"read QR codes">> ELSE <<>>
      prompt == base \o detail \o conf \o cols \o faces \o qr
  IN  IF cfg.language = "en" THEN <<"Please respond in English.">> \o prompt
      ELSE IF cfg.language = "ja" THEN <<"respond in Japanese.">> \o prompt
      ELSE prompt

\* Number.prototype.toString of a config number
numberToString(n) == <<"num", n>>

\* appends the three option flags whatever the config holds
buildGeminiCommandAllFlags(cfg, prompt, imagePath) ==
  <<"@google-ai/generative-ai-cli", "--prompt", prompt, "--file", imagePath,
    "--model", cfg.model,
    "--temperature", numberToString(cfg.temperature),
    "--max-tokens", numberToString(cfg.maxOutputTokens)>>

buildGeminiCommand(cfg, prompt, imagePath) ==
  <<"@google-ai/generative-ai-cli", "--prompt", prompt, "--file", imagePath>>
  \o (IF cfg.model # DEFAULT_GEMINI_CONFIG.model
      THEN <<"--model", cfg.model>> ELSE <<>>)
  \o (IF cfg.temperature # DEFAULT_GEMINI_CONFIG.temperature
      THEN <<"--temperature", numberToString(cfg.temperature)>> ELSE <<>>)
  \o (IF cfg.maxOutputTokens # DEFAULT_GEMINI_CONFIG.maxOutputTokens
      THEN <<"--max-tokens", numberToString(cfg.maxOutputTokens)>> ELSE <<>>)

(* --------------------------- result extractor -------------------------- *)
\* A text is a sequence of characters.  Characters outside ASCII and the label
\* words the patterns look for are written as one element each.
BULLET == "<bullet>"
FW_COLON == "<fullwidth colon>"
FW_PERCENT == "<fullwidth percent>"
FW_COMMA == "<ideographic comma>"
LABEL_CONFIDENCE == "<confidence>"
LABEL_CATEGORY == "<category>"
LABEL_TAG == "<tag>"
LABEL_COLOR == "<color>"

\* \s and \d within the modelled alphabet
Whitespace == {" ", "\n"}
Digits == {"0", "1", "2", "3", "4", "5", "6", "7", "8", "9"}

DigitValue(c) ==
  CASE c = "0" -> 0 [] c = "1" -> 1 [] c = "2" -> 2 [] c = "3" -> 3 [] c = "4" -> 4
    [] c = "5" -> 5 [] c = "6" -> 6 [] c = "7" -> 7 [] c = "8" -> 8 [] c = "9" -> 9

\* s.slice(from): s without its first from characters
Drop(s, from) == SubSeq(s, from + 1, Len(s))

\* length of the longest prefix of s made of characters of class (a greedy X*)
Span(s, class) ==
  CHOOSE k \in 0..Len(s) :
    /\ \A j \in 1..k : s[j] \in class
    /\ k = Len(s) \/ s[k + 1] \notin class

\* length of the longest prefix of s without a newline ([^\n]* taken greedily)
LineSpan(s) ==
  CHOOSE k \in 0..Len(s) :
    /\ \A j \in 1..k : s[j] # "\n"
    /\ k = Len(s) \/ s[k + 1] = "\n"

RECURSIVE split(_, _)
\* String.prototype.split on a separator out of seps
split(s, seps) ==
  IF \E k \in 1..Len(s) : s[k] \in seps
  THEN LET k == CHOOSE k \in 1..Len(s) :
                  s[k] \in seps /\ \A j \in 1..(k - 1) : s[j] \notin seps
       IN  <<SubSeq(s, 1, k - 1)>> \o split(Drop(s, k), seps)
  ELSE <<s>>

\* length of the match of /^[-*•]\s+/ at the start of line, 0 when there is none
matchBullet(line) ==
  IF /\ Len(line) >= 2
     /\ line[1] \in {"-", "*", BULLET}
     /\ line[2] \in Whitespace
  THEN 1 + Span(Drop(line, 1), Whitespace)
  ELSE 0

\* length of the match of /^\d+\.\s+/ at the start of line, 0 when there is none
matchNumbered(line) ==
  LET d == Span(line, Digits)
  IN  IF /\ d >= 1
         /\ Len(line) >= d + 2
         /\ line[d + 1] = "."
         /\ line[d + 2] \in Whitespace
      THEN d + 1 + Span(Drop(line, d + 1), Whitespace)
      ELSE 0

\* line.replace(/^[-*•]\s+/, '').replace(/^\d+\.\s+/, '').trim()
stripMarkers(line) ==
  LET a == Drop(line, matchBullet(line))
  IN  Trim(Drop(a, matchNumbered(a)))

IsListLine(line) == matchBullet(line) > 0 \/ matchNumbered(line) > 0
NonEmpty(item) == Len(item) > 0

\* keeps the items that are empty after stripping
extractObjectsListKeepEmpty(text) ==
  LET lines == split(text, {"\n"})
      kept == SelectSeq(lines, IsListLine)
  IN  [j \in 1..Len(kept) |-> stripMarkers(kept[j])]

extractObjectsList(text) ==
  LET lines == split(text, {"\n"})
      kept == SelectSeq(lines, IsListLine)
  IN  SelectSeq([j \in 1..Len(kept) |-> stripMarkers(kept[j])], NonEmpty)

\* String.prototype.match reports the leftmost match: the first of the positions
\* at which the pattern matches, 0 when there is none
FirstMatch(positions) ==
  IF positions = {} THEN 0
  ELSE CHOOSE p \in positions : \A q \in positions : p <= q

\* where the group ([^\n]+) starts after label[：:]\s* matched at p, 0 when the
\* pattern does not match at p: \s* takes all the whitespace it can and gives
\* characters back until a character other than a newline follows it
FieldStart(text, p, label) ==
  IF /\ text[p] = label
     /\ p + 1 <= Len(text)
     /\ text[p + 1] \in {":", FW_COLON}
  THEN LET w == Span(Drop(text, p + 1), Whitespace)
           ok == { k \in 0..w : p + 2 + k <= Len(text) /\ text[p + 2 + k] # "\n" }
       IN  IF ok = {} THEN 0
           ELSE p + 2 + (CHOOSE k \in ok : \A j \in ok : j <= k)
  ELSE 0

\* group 1 of the first match of /label[：:]\s*([^\n]+)/, <<>> when no match
matchField(text, label) ==
  LET p == FirstMatch({ q \in 1..Len(text) : FieldStart(text, q, label) > 0 })
  IN  IF p = 0 THEN <<>>
      ELSE LET g == FieldStart(text, p, label)
           IN  SubSeq(text, g, g - 1 + LineSpan(Drop(text, g - 1)))

\* value.split(/[,、]/).map(c => c.trim()) of a matched field, nothing when
\* the field does not match
fieldValues(text, label) ==
  IF matchField(text, label) = <<>> THEN <<>>
  ELSE LET pieces == split(matchField(text, label), {",", FW_COMMA})
       IN  [j \in 1..Len(pieces) |-> Trim(pieces[j])]

\* the tag values come before the category values
extractCategoriesTagsFirst(text) ==
  fieldValues(text, LABEL_TAG) \o fieldValues(text, LABEL_CATEGORY)

extractCategories(text) ==
  fieldValues(text, LABEL_CATEGORY) \o fieldValues(text, LABEL_TAG)

\* numbers with a fraction are kept exact, as numerator over denominator
Number(num, den) == [num |-> num, den |-> den]

DEFAULT_CONFIDENCE_SCORE == Number(8, 10)

RECURSIVE DigitsValue(_)
DigitsValue(ds) ==
  IF ds = <<>> THEN 0 ELSE 10 * DigitsValue(SubSeq(ds, 1, Len(ds) - 1)) + DigitValue(ds[Len(ds)])

RECURSIVE Pow10(_)
Pow10(n) == IF n = 0 THEN 1 ELSE 10 * Pow10(n - 1)

\* parseFloat of a string of the form \d+(\.\d+)?
parseFloat(str) ==
  LET d == Span(str, Digits)
      frac == Drop(str, d + 1)
  IN  IF d = Len(str) THEN Number(DigitsValue(str), 1)
      ELSE Number(DigitsValue(SubSeq(str, 1, d) \o frac), Pow10(Len(frac)))

\* where the group (\d+(?:\.\d+)?) starts after 信頼度[：:]?\s* matched at p, 0
\* when the pattern does not match at p
ScoreStart(text, p) ==
  IF text[p] = LABEL_CONFIDENCE
  THEN LET c == IF p + 1 <= Len(text) /\ text[p + 1] \in {":", FW_COLON} THEN 1 ELSE 0
           w == Span(Drop(text, p + c), Whitespace)
           g == p + c + w + 1
       IN  IF g <= Len(text) /\ text[g] \in Digits THEN g ELSE 0
  ELSE 0

\* group 1 of the first match of /信頼度[：:]?\s*(\d+(?:\.\d+)?)[%％]?/
matchScore(text) ==
  LET p == FirstMatch({ q \in 1..Len(text) : ScoreStart(text, q) > 0 })
  IN  IF p = 0 THEN <<>>
      ELSE LET g == ScoreStart(text, p)
               rest == Drop(text, g - 1)
               d == Span(rest, Digits)
               f == IF d + 1 <= Len(rest) /\ rest[d + 1] = "."
                    THEN Span(Drop(rest, d + 1), Digits) ELSE 0
           IN  SubSeq(rest, 1, IF f > 0 THEN d + 1 + f ELSE d)

\* divides every matched value by 100
extractConfidenceScoreAlwaysPercent(text) ==
  IF matchScore(text) # <<>>
  THEN LET score == parseFloat(matchScore(text))
       IN  Number(score.num, score.den * 100)
  ELSE DEFAULT_CONFIDENCE_SCORE

extractConfidenceScore(text) ==
  IF matchScore(text) # <<>>
  THEN LET score == parseFloat(matchScore(text))
       IN  IF score.num > score.den THEN Number(score.num, score.den * 100) ELSE score
  ELSE DEFAULT_CONFIDENCE_SCORE

\* the closed vocabulary of colour names, one element each
basicColors ==
  <<"<red>", "<blue>", "<green>", "<yellow>", "<black>", "<white>", "<brown>",
    "<purple>", "<orange>">>

\* where the group ([^\n]+) starts after 色[：:] matched at p, 0 when no match
ColorStart(text, p) ==
  IF /\ text[p] = LABEL_COLOR
     /\ p + 2 <= Len(text)
     /\ text[p + 1] \in {":", FW_COLON}
     /\ text[p + 2] # "\n"
  THEN p + 2
  ELSE 0

extractColorInfo(text) ==
  LET p == FirstMatch({ q \in 1..Len(text) : ColorStart(text, q) > 0 })
      colorText == IF p = 0 THEN <<>>
                   ELSE SubSeq(text, p + 2, p + 1 + LineSpan(Drop(text, p + 1)))
      Present(color) == \E j \in 1..Len(colorText) : colorText[j] = color
      found == SelectSeq(basicColors, Present)
  IN  [j \in 1..Len(found) |->
         [color |-> found[j], percentage |-> Number(1, 10), rgb |-> <<0, 0, 0>>]]

(* ------------------------------- inputs ------------------------------- *)
DEFAULT_ANALYSIS_OPTIONS ==
  [analysisType |-> "describe", detailLevel |-> "standard",
   includeConfidence |-> FALSE, extractColors |-> FALSE, detectFaces |-> FALSE,
   readQRCodes |-> FALSE, includeMetadata |-> FALSE]

\* option record handed to batchAnalyze
OptionsSet ==
  { [DEFAULT_ANALYSIS_OPTIONS EXCEPT !.analysisType = "ocr", !.detailLevel = "brief",
                                     !.readQRCodes = TRUE, !.includeMetadata = TRUE] }

\* input lists: n distinct paths, named by their position
PathLists == { [k \in 1..n |-> k] : n \in 0..MaxN }

\* chunks a child writes to its standard output
StdoutChunks == { <<" ", "a", "\n">> }

\* chunks a child writes to its standard error
StderrChunks ==
  { <<"quota", "Authentication", "failed">>, <<"Unauthorized">>, <<"Rate", "limit">> }

\* exit statuses delivered with the close event
ExitCodes == {0, 1, null}

\* messages of the Error delivered with the error event
ErrorMessages == { <<"spawn", "npx", "ENOENT">>, <<"wait", "timeout">> }

\* message of the Error fs.stat rejects with
StatErrorMessage == <<"ENOENT:", "no", "such", "file">>

(* ------------------------------- state -------------------------------- *)
VARIABLES
  config,          \* GeminiClient.config
  bpc,             \* position of the batchAnalyze call: idle, await, done, rejected
  imagePaths,      \* batchAnalyze argument
  options,         \* batchAnalyze argument
  maxConcurrency,  \* batchAnalyze local
  i,               \* batchAnalyze loop index
  results,         \* batchAnalyze local: the list it returns
  promises,        \* batchAnalyze local: the analyzeImage calls of the current window
  errorLog,        \* what console.error received, in order
  spawned,         \* every spawn('npx', args, ...) call so far, in order
  windows,         \* size of every window dispatched so far, in order
  dataLeft,        \* standard-output data events the children may still emit
  faultsLeft,      \* abnormal events that may still happen
  newConfig,       \* argument of the last updateConfig call
  updates,         \* number of updateConfig calls so far
  call,            \* frame of an analyzeImage call made on its own: imagePath,
                   \* prompt, command, rawResult, result
  env,             \* process.env: the variables that are set, with their values
  manager,         \* the ConfigManager singleton
  warnings,        \* what console.warn received, in order
  files,           \* the file system: what each path names
  calls            \* the tool calls the server has received, in order

\* state of a single call made outside a batch, and of the config updates
callVars == <<newConfig, updates, call>>

\* state of the server around the client: environment, manager, files, tool calls
serverVars == <<env, manager, warnings, files, calls>>

vars == <<config, bpc, imagePaths, options, maxConcurrency, i, results, promises,
          errorLog, spawned, windows, dataLeft, faultsLeft, callVars, serverVars>>

NoResult ==
  [path |-> 0, description |-> <<>>, objects |-> <<>>, text |-> <<>>,
   confidence |-> Number(0, 1), colors |-> <<>>]
NoError == GeminiMCPError("NONE", <<>>, <<>>)
NoCode == 0 - 1
NoCall == [imagePath |-> 0, prompt |-> <<>>, command |-> <<>>, rawResult |-> <<>>,
           result |-> NoResult]

\* no variable set, no ConfigManager constructed yet
NoEnv == [key \in {} |-> <<>>]
NoManager == [constructed |-> "no"]
NoFiles == [path \in {} |-> 0]

\* a client used on its own: no server, no tool call
ServerIdle ==
  /\ env = NoEnv
  /\ manager = NoManager
  /\ warnings = <<>>
  /\ files = NoFiles
  /\ calls = <<>>

(* --------------------------- single analysis -------------------------- *)
\* analyzeImage up to its first await: prompt, command, spawn, handlers wired
analyzeImage(cfg, imagePath, opts) ==
  [path     |-> imagePath,
   command  |-> buildGeminiCommand(cfg, buildAnalysisPrompt(cfg, opts), imagePath),
   exec     |-> "pending",    \* promise of executeGeminiCommand
   phase    |-> "pending",    \* promise of analyzeImage
   stdout   |-> <<>>,
   stderr   |-> <<>>,
   killed   |-> FALSE,        \* the spawn timeout fired and signalled the child
   closed   |-> FALSE,
   errored  |-> FALSE,
   exitCode |-> NoCode,
   settledBy |-> "none",      \* the handler that settled exec: close or error
   raw      |-> <<>>,
   value    |-> NoResult,
   errorMessage |-> <<>>,     \* message of the Error the error event delivered
   execReason |-> NoError,    \* what executeGeminiCommand rejected with
   reason   |-> NoError]      \* what analyzeImage rejected with

\* the base record, the analysisType switch, then the confidence and the colors
\* when the request asks for them; path stands for the metadata of the file
parseAnalysisResult(rawResult, imagePath, opts) ==
  [path        |-> imagePath,
   description |-> rawResult,
   objects     |-> CASE opts.analysisType = "detect_objects" -> extractObjectsList(rawResult)
                     [] opts.analysisType = "classify" -> extractCategories(rawResult)
                     [] OTHER -> <<>>,
   text        |-> IF opts.analysisType = "ocr" THEN rawResult ELSE <<>>,
   confidence  |-> IF opts.includeConfidence THEN extractConfidenceScore(rawResult)
                   ELSE Number(8, 10),
   colors      |-> IF opts.extractColors THEN extractColorInfo(rawResult) ELSE <<>>]

\* the catch block wraps every error as a process failure, classified ones included
catchBlockWrapAll(error) ==
  networkError(<<"process execution error: ">> \o error.message,
               [originalError |-> error.message])

\* the catch block of analyzeImage: a GeminiMCPError is rethrown as it is,
\* anything else goes through mapProcessError
catchBlock(error) ==
  IF error.name = "GeminiMCPError" THEN error ELSE mapProcessError(error.message)

\* child.stdout.on('data')
onStdoutData(t, data) == [t EXCEPT !.stdout = @ \o data]

\* child.stderr.on('data')
onStderrData(t, data) == [t EXCEPT !.stderr = @ \o data]

\* a close event settles the promise again, whatever settled it before
onCloseResettle(t, code) ==
  LET c == [t EXCEPT !.closed = TRUE, !.exitCode = code]
  IN  IF code = 0
      THEN [c EXCEPT !.exec = "resolved", !.settledBy = "close",
                     !.raw = Trim(t.stdout)]
      ELSE LET e == mapChildProcessError(t.stderr, t.stdout, code)
           IN  [c EXCEPT !.exec = "rejected", !.settledBy = "close",
                         !.phase = "rejected",
                         !.execReason = e, !.reason = catchBlock(e)]

\* child.on('close'); resolve and reject do nothing on a settled promise
onClose(t, code) ==
  LET c == [t EXCEPT !.closed = TRUE, !.exitCode = code]
  IN  IF t.exec # "pending" THEN c
      ELSE IF code = 0
      THEN [c EXCEPT !.exec = "resolved", !.settledBy = "close",
                     !.raw = Trim(t.stdout)]
      ELSE LET e == mapChildProcessError(t.stderr, t.stdout, code)
           IN  [c EXCEPT !.exec = "rejected", !.settledBy = "close",
                         !.phase = "rejected",
                         !.execReason = e, !.reason = catchBlock(e)]

\* child.on('error')
onError(t, message) ==
  LET c == [t EXCEPT !.errored = TRUE, !.errorMessage = message]
      e == mapProcessError(message)
  IN  IF t.exec # "pending" THEN c
      ELSE [c EXCEPT !.exec = "rejected", !.settledBy = "error",
                     !.phase = "rejected",
                     !.execReason = e, !.reason = catchBlock(e)]

\* a failing close also rejects the siblings that are still pending
closeHandlerAbortSiblings(ps, k, code) ==
  LET me == onClose(ps[k], code)
  IN  [j \in 1..Len(ps) |->
         IF j = k THEN me
         ELSE IF me.phase = "rejected" /\ ps[k].exec = "pending" /\ ps[j].phase = "pending"
         THEN [ps[j] EXCEPT !.exec = "rejected", !.phase = "rejected",
                            !.reason = me.reason]
         ELSE ps[j]]

\* the close event of task k as seen by the whole window
closeHandler(ps, k, code) == [ps EXCEPT ![k] = onClose(ps[k], code)]

\* analyzeImage after executeGeminiCommand resolved: parseAnalysisResult awaits
\* extractBasicImageMetadata (fs.stat); a rejection lands in the catch block
onMetadata(t, ok, opts) ==
  IF ok
  THEN [t EXCEPT !.phase = "fulfilled",
                 !.value = parseAnalysisResult(t.raw, t.path, opts)]
  ELSE [t EXCEPT !.phase = "rejected", !.reason = catchBlock(Error(StatErrorMessage))]

(* ------------------------------- batch -------------------------------- *)
Min(a, b) == IF a < b THEN a ELSE b

\* Array.prototype.slice(from, to) with 0-based from and exclusive to
slice(arr, from, to) == SubSeq(arr, from + 1, Min(to, Len(arr)))

\* a window one item too long
batchWindowOffByOne(paths, idx, c) == slice(paths, idx, idx + c + 1)

\* imagePaths.slice(i, i + maxConcurrency)
batchWindow(paths, idx, c) == slice(paths, idx, idx + c)

\* the next window starts on the last item of this one
nextIndexOverlap(idx, c) == idx + c - 1

\* i += maxConcurrency
nextIndex(idx, c) == idx + c

\* builds every invocation from the config the client was constructed with
dispatchStaleConfig(cfg, batch, opts) ==
  [k \in 1..Len(batch) |-> analyzeImage(DEFAULT_GEMINI_CONFIG, batch[k], opts)]

\* batch.map(path => this.analyzeImage(path, options))
dispatch(cfg, batch, opts) ==
  [k \in 1..Len(batch) |-> analyzeImage(cfg, batch[k], opts)]

\* resumes as soon as one call has settled
someSettled(ps) == \E k \in 1..Len(ps) : ps[k].phase # "pending"

\* resumes only when every call has fulfilled
allFulfilled(ps) == \A k \in 1..Len(ps) : ps[k].phase = "fulfilled"

\* Promise.allSettled(promises) has settled
allSettled(ps) == \A k \in 1..Len(ps) : ps[k].phase # "pending"

\* Promise.all: rejects when one call rejects
awaitOutcomePromiseAll(ps) ==
  IF \E k \in 1..Len(ps) : ps[k].phase = "rejected" THEN "rejected" ELSE "fulfilled"

\* outcome of awaiting Promise.allSettled(promises): it never rejects
awaitOutcome(ps) == "fulfilled"

RECURSIVE pushSettled(_, _)
\* pushes result.value of every settled call, rejected ones included
pushSettled(res, ps) ==
  IF ps = <<>> THEN res ELSE pushSettled(Append(res, Head(ps).value), Tail(ps))

RECURSIVE pushFulfilledFront(_, _)
\* puts every fulfilled value at the front of the list
pushFulfilledFront(res, ps) ==
  IF ps = <<>> THEN res
  ELSE pushFulfilledFront(IF Head(ps).phase = "fulfilled"
                          THEN <<Head(ps).value>> \o res ELSE res, Tail(ps))

RECURSIVE pushFulfilled(_, _)
\* for (const result of batchResults) if fulfilled results.push(result.value)
pushFulfilled(res, ps) ==
  IF ps = <<>> THEN res
  ELSE pushFulfilled(IF Head(ps).phase = "fulfilled"
                     THEN Append(res, Head(ps).value) ELSE res, Tail(ps))

RECURSIVE logRejected(_, _)
\* ... else console.error(..., result.reason); the log keeps the error's kind
logRejected(log, ps) ==
  IF ps = <<>> THEN log
  ELSE logRejected(IF Head(ps).phase = "rejected"
                   THEN Append(log, [path |-> Head(ps).path, code |-> Head(ps).reason.code])
                   ELSE log, Tail(ps))

spawnRecords(ps) == [k \in 1..Len(ps) |-> [path |-> ps[k].path, command |-> ps[k].command]]

Init ==
  /\ config = DEFAULT_GEMINI_CONFIG
  /\ bpc = "idle"
  /\ imagePaths = <<>>
  /\ options = DEFAULT_ANALYSIS_OPTIONS
  /\ maxConcurrency = 0
  /\ i = 0
  /\ results = <<>>
  /\ promises = <<>>
  /\ errorLog = <<>>
  /\ spawned = <<>>
  /\ windows = <<>>
  /\ dataLeft = MaxData
  /\ faultsLeft = MaxFaults
  /\ newConfig = [f \in {} |-> 0]
  /\ updates = 0
  /\ call = NoCall
  /\ ServerIdle

\* the call of batchAnalyze up to its first await (or its return for no input),
\* as it acts on the client and on the frame of the call
batchAnalyzeCall(paths, opts) ==
  /\ bpc = "idle"
  /\ imagePaths' = paths
  /\ options' = opts
  /\ maxConcurrency' = getMaxConcurrentRequests
  /\ results' = <<>>
  /\ i' = 0
  /\ LET ps == dispatch(config, batchWindow(paths, 0, getMaxConcurrentRequests), opts)
     IN  IF 0 < Len(paths)
         THEN /\ promises' = ps
              /\ spawned' = spawned \o spawnRecords(ps)
              /\ windows' = Append(windows, Len(ps))
              /\ bpc' = "await"
         ELSE /\ bpc' = "done"
              /\ UNCHANGED <<promises, spawned, windows>>
  /\ UNCHANGED <<config, errorLog, dataLeft, faultsLeft, callVars>>

\* batchAnalyze called on a client used on its own
batchAnalyze(paths, opts) ==
  /\ batchAnalyzeCall(paths, opts)
  /\ UNCHANGED serverVars

\* batchAnalyze resumes after await Promise.allSettled: collect the window, then
\* dispatch the next window or return
batchAnalyzeResumed ==
  /\ bpc = "await"
  /\ allSettled(promises)
  /\ IF awaitOutcome(promises) = "rejected"
     THEN /\ bpc' = "rejected"
          /\ UNCHANGED <<i, results, promises, errorLog, spawned, windows>>
     ELSE /\ results' = pushFulfilled(results, promises)
          /\ errorLog' = logRejected(errorLog, promises)
          /\ i' = nextIndex(i, maxConcurrency)
          /\ LET ps == dispatch(config, batchWindow(imagePaths, i', maxConcurrency), options)
             IN  IF i' < Len(imagePaths)
                 THEN /\ promises' = ps
                      /\ spawned' = spawned \o spawnRecords(ps)
                      /\ windows' = Append(windows, Len(ps))
                      /\ bpc' = "await"
                 ELSE /\ bpc' = "done"
                      /\ promises' = <<>>
                      /\ UNCHANGED <<spawned, windows>>
  /\ UNCHANGED <<config, imagePaths, options, maxConcurrency, dataLeft, faultsLeft,
                 callVars>>

\* the resumption in a client used on its own
WindowSettled ==
  /\ batchAnalyzeResumed
  /\ UNCHANGED serverVars

batchFrame == <<config, bpc, imagePaths, options, maxConcurrency, i, results,
                errorLog, spawned, windows, callVars, serverVars>>

\* a child writes a chunk to its standard output
StdoutData(k, data) ==
  /\ bpc = "await" /\ k \in 1..Len(promises)
  /\ ~promises[k].closed
  /\ dataLeft > 0
  /\ promises' = [promises EXCEPT ![k] = onStdoutData(@, data)]
  /\ dataLeft' = dataLeft - 1
  /\ UNCHANGED <<batchFrame, faultsLeft>>

\* a child writes a chunk to its standard error
StderrData(k, data) ==
  /\ bpc = "await" /\ k \in 1..Len(promises)
  /\ ~promises[k].closed
  /\ faultsLeft > 0
  /\ promises' = [promises EXCEPT ![k] = onStderrData(@, data)]
  /\ faultsLeft' = faultsLeft - 1
  /\ UNCHANGED <<batchFrame, dataLeft>>

\* the timeout given to spawn fires: the runtime signals the child (SIGTERM);
\* the child then ends through its close event like any other exit
TimeoutFire(k) ==
  /\ bpc = "await" /\ k \in 1..Len(promises)
  /\ ~promises[k].closed /\ ~promises[k].killed
  /\ faultsLeft > 0
  /\ promises' = [promises EXCEPT ![k].killed = TRUE]
  /\ faultsLeft' = faultsLeft - 1
  /\ UNCHANGED <<batchFrame, dataLeft>>

\* the child's stdio has closed: close event with its exit status
Close(k, code) ==
  /\ bpc = "await" /\ k \in 1..Len(promises)
  /\ ~promises[k].closed
  /\ promises' = closeHandler(promises, k, code)
  /\ UNCHANGED <<batchFrame, dataLeft, faultsLeft>>

\* the child emits an error event (spawn failure, failed signal delivery)
ErrorEvent(k, message) ==
  /\ bpc = "await" /\ k \in 1..Len(promises)
  /\ ~promises[k].closed /\ ~promises[k].errored
  /\ faultsLeft > 0
  /\ promises' = [promises EXCEPT ![k] = onError(@, message)]
  /\ faultsLeft' = faultsLeft - 1
  /\ UNCHANGED <<batchFrame, dataLeft>>

\* fs.stat of the metadata step succeeds
MetadataOk(k) ==
  /\ bpc = "await" /\ k \in 1..Len(promises)
  /\ promises[k].exec = "resolved" /\ promises[k].phase = "pending"
  /\ promises' = [promises EXCEPT ![k] = onMetadata(@, TRUE, options)]
  /\ UNCHANGED <<batchFrame, dataLeft, faultsLeft>>

\* fs.stat of the metadata step fails
MetadataFail(k) ==
  /\ bpc = "await" /\ k \in 1..Len(promises)
  /\ promises[k].exec = "resolved" /\ promises[k].phase = "pending"
  /\ faultsLeft > 0
  /\ promises' = [promises EXCEPT ![k] = onMetadata(@, FALSE, options)]
  /\ faultsLeft' = faultsLeft - 1
  /\ UNCHANGED <<batchFrame, dataLeft>>

\* positions of a window
Slots == 1..getMaxConcurrentRequests

Next ==
  \/ \E paths \in PathLists, opts \in OptionsSet : batchAnalyze(paths, opts)
  \/ WindowSettled
  \/ \E k \in Slots, data \in StdoutChunks : StdoutData(k, data)
  \/ \E k \in Slots, data \in StderrChunks : StderrData(k, data)
  \/ \E k \in Slots : TimeoutFire(k)
  \/ \E k \in Slots, code \in ExitCodes : Close(k, code)
  \/ \E k \in Slots, message \in ErrorMessages : ErrorEvent(k, message)
  \/ \E k \in Slots : MetadataOk(k)
  \/ \E k \in Slots : MetadataFail(k)

Spec == Init /\ [][Next]_vars

\* the children are assumed to end (close or error event), fs.stat to answer,
\* and the event loop to resume a batchAnalyze whose await has settled
FairSpec ==
  /\ Spec
  /\ WF_vars(WindowSettled)
  /\ \A k \in Slots :
       WF_vars(/\ k \in 1..Len(promises)
               /\ promises[k].exec = "pending"
               /\ \/ \E code \in ExitCodes : Close(k, code)
                  \/ \E message \in ErrorMessages : ErrorEvent(k, message))
  /\ \A k \in Slots : WF_vars(MetadataOk(k) \/ MetadataFail(k))

(* --------------------------- config updates ---------------------------- *)
\* most updateConfig calls in one run
MaxUpdates == 2

\* a partial config with no field
emptyPartial == [f \in {} |-> 0]

\* arguments of updateConfig
Partials ==
  { emptyPartial, [language |-> "en"],
    [model |-> "gemini-1.5-flash", temperature |-> 2] }

\* fields absent from the argument fall back to the defaults
spreadOntoDefaults(a, b) ==
  [f \in DOMAIN a \cup DOMAIN b |-> IF f \in DOMAIN b THEN b[f] ELSE DEFAULT_GEMINI_CONFIG[f]]

\* { ...a, ...b }
spread(a, b) ==
  [f \in DOMAIN a \cup DOMAIN b |-> IF f \in DOMAIN b THEN b[f] ELSE a[f]]

\* GeminiClient.updateConfig, called from a tool handler at any point between
\* two steps of a running batch
updateConfig(p) ==
  /\ updates < MaxUpdates
  /\ config' = spread(config, p)
  /\ newConfig' = p
  /\ updates' = updates + 1
  /\ UNCHANGED <<bpc, imagePaths, options, maxConcurrency, i, results, promises,
                 errorLog, spawned, windows, dataLeft, faultsLeft, call, serverVars>>

UpdateNext ==
  \/ Next
  \/ \E p \in Partials : updateConfig(p)

UpdateSpec == Init /\ [][UpdateNext]_vars

(* -------------------- the command builder on its own ------------------- *)
SUPPORTED_LANGUAGES == {"ja", "en", "auto"}
ANALYSIS_TYPES == {"describe", "ocr", "classify", "detect_objects"}
DETAIL_LEVELS == {"brief", "standard", "detailed"}

\* configs a client is constructed with: each field at its default or not
Configs ==
  [model : {"gemini-2.5-pro", "gemini-1.5-flash"}, temperature : {7, 2},
   maxOutputTokens : {2048, 1024}, language : SUPPORTED_LANGUAGES]

\* every option record the options schema admits
AllOptions ==
  [analysisType : ANALYSIS_TYPES, detailLevel : DETAIL_LEVELS,
   includeConfidence : BOOLEAN, extractColors : BOOLEAN, detectFaces : BOOLEAN,
   readQRCodes : BOOLEAN, includeMetadata : {FALSE}]

\* no batchAnalyze call is running
BatchIdle ==
  /\ bpc = "idle"
  /\ imagePaths = <<>>
  /\ maxConcurrency = 0
  /\ i = 0
  /\ results = <<>>
  /\ promises = <<>>
  /\ errorLog = <<>>
  /\ spawned = <<>>
  /\ windows = <<>>
  /\ dataLeft = MaxData
  /\ faultsLeft = MaxFaults
  /\ newConfig = [f \in {} |-> 0]
  /\ updates = 0

\* a client constructed with some config, about to run analyzeImage on a path
BuildInit ==
  /\ BatchIdle
  /\ ServerIdle
  /\ config \in Configs
  /\ options \in AllOptions
  /\ call \in { [NoCall EXCEPT !.imagePath = p] : p \in 1..2 }

\* analyzeImage up to the call of executeGeminiCommand: the prompt, then the
\* argument list
analyzeImageBuild ==
  /\ call.command = <<>>
  /\ LET p == buildAnalysisPrompt(config, options)
     IN  call' = [call EXCEPT !.prompt = p,
                              !.command = buildGeminiCommand(config, p, call.imagePath)]
  /\ UNCHANGED <<config, bpc, imagePaths, options, maxConcurrency, i, results,
                 promises, errorLog, spawned, windows, dataLeft, faultsLeft,
                 newConfig, updates, serverVars>>

BuildNext == analyzeImageBuild

BuildSpec == BuildInit /\ [][BuildNext]_vars

(* -------------------- the result extractor on its own ------------------ *)
\* longest raw text drawn from every combination of characters
MaxText == 4

\* every text of at most n characters of alphabet
TextsUpTo(alphabet, n) == UNION { [1..k -> alphabet] : k \in 0..n }

\* the instance of list extraction the specification works out
ListExample ==
  <<"-", " ", "a", "p", "p", "l", "e", "\n",
    "*", " ", "b", "a", "n", "a", "n", "a", "\n",
    "1", ".", " ", "c", "h", "e", "r", "r", "y", "\n",
    "n", "o", "t", "a", "i", "t", "e", "m">>

\* raw texts with list lines
ListTexts ==
  TextsUpTo({"-", "1", ".", " ", "a", "\n"}, MaxText)
  \cup { ListExample,
         <<"-", " ", "a", "\n", "-", " ", "a">>,
         <<"-", " ", "1", ".", " ", "a">>,
         <<"1", ".", " ", "-", " ", "a">>,
         <<BULLET, " ", " ", "a", " ", "\n", " ", "-", " ", "a", "\n", "1", "5", ".", " ", "a">> }

\* numerals a model writes after the confidence label
Numerals ==
  { <<"8", "5">>, <<"0", ".", "6">>, <<"1">>, <<"1", ".", "0">>, <<"0">>,
    <<"1", "5", "0">>, <<"1", ".", "5">>, <<"1", "0", "0">> }

\* raw texts with a confidence field
ScoreTexts ==
  TextsUpTo({LABEL_CONFIDENCE, ":", " ", "0", "1", "5", "."}, MaxText)
  \cup { <<LABEL_CONFIDENCE>> \o colon \o space \o numeral \o percent :
           colon \in {<<>>, <<":">>, <<FW_COLON>>},
           space \in {<<>>, <<" ">>, <<" ", "\n">>},
           numeral \in Numerals,
           percent \in {<<>>, <<"%">>, <<FW_PERCENT>>} }

\* raw texts with a category or a tag field
CategoryTexts ==
  TextsUpTo({LABEL_CATEGORY, LABEL_TAG, ":", ",", " ", "a", "\n"}, MaxText)
  \cup { <<LABEL_TAG, ":", " ", "x", FW_COMMA, " ", "y", "\n",
           LABEL_CATEGORY, FW_COLON, "a", ",", "b", " ">>,
         <<LABEL_CATEGORY, ":", "a", "\n", LABEL_TAG, ":", "x">>,
         <<LABEL_COLOR, ":", "<blue>", "a", "<red>", "\n", LABEL_CATEGORY, ":", "a">> }

RawTexts == ListTexts \cup ScoreTexts \cup CategoryTexts

\* requests: every analysis type, with and without confidence and colors
ParseOptions ==
  { o \in AllOptions :
      o.detailLevel = "standard" /\ ~o.detectFaces /\ ~o.readQRCodes }

\* analyzeImage after executeGeminiCommand resolved with some raw text
ParseInit ==
  /\ BatchIdle
  /\ ServerIdle
  /\ config = DEFAULT_GEMINI_CONFIG
  /\ options \in ParseOptions
  /\ call \in { [NoCall EXCEPT !.imagePath = 1, !.rawResult = t] : t \in RawTexts }

\* analyzeImage from the call of parseAnalysisResult to its return
analyzeImageParse ==
  /\ call.result = NoResult
  /\ call' = [call EXCEPT !.result =
                parseAnalysisResult(call.rawResult, call.imagePath, options)]
  /\ UNCHANGED <<config, bpc, imagePaths, options, maxConcurrency, i, results,
                 promises, errorLog, spawned, windows, dataLeft, faultsLeft,
                 newConfig, updates, serverVars>>

ParseNext == analyzeImageParse

ParseSpec == ParseInit /\ [][ParseNext]_vars

(* ------------------------ configuration loading ----------------------- *)
DEFAULT_PERFORMANCE_CONFIG ==
  [maxImageSize |-> 10, maxBatchSize |-> 10, parallelProcessing |-> TRUE,
   analysisTimeout |-> 30, cacheResults |-> TRUE]

AVAILABLE_GEMINI_MODELS ==
  {"gemini-1.5-pro", "gemini-1.5-flash", "gemini-2.0-flash-exp", "gemini-2.5-pro"}

\* the value of a numeric variable is its sequence of characters, the value of
\* an enumerated variable is one word; a variable that is not set is not in the
\* domain of the environment
IsSet(e, key) == key \in DOMAIN e

NaN == Number(0, 0)
isNaN(x) == x.den = 0

\* Number(value) of a string: surrounding whitespace is ignored, the empty
\* string is 0, a decimal literal with an optional sign is its value, and
\* anything else is NaN; a negative value has a negative numerator
ToNumber(str) ==
  LET t == Trim(str)
      signed == t # <<>> /\ t[1] \in {"-", "+"}
      u == IF signed THEN Tail(t) ELSE t
      d == Span(u, Digits)
      dot == d + 1 <= Len(u) /\ u[d + 1] = "."
      frac == IF dot THEN Drop(u, d + 1) ELSE <<>>
      f == Span(frac, Digits)
      wellFormed == /\ d + f > 0
                    /\ f = Len(frac)
                    /\ dot \/ d = Len(u)
      magnitude == DigitsValue(SubSeq(u, 1, d) \o frac)
  IN  IF t = <<>> THEN Number(0, 1)
      ELSE IF ~wellFormed THEN NaN
      ELSE Number(IF t[1] = "-" THEN 0 - magnitude ELSE magnitude, Pow10(f))

\* a number in the unit of a config field: tenths for the temperature, whole
\* units for the other fields (exact on the values the environments below hold)
Tenths(x) == (x.num * 10) \div x.den
Whole(x) == x.num \div x.den

\* getEnvNumber: the default for an unset, empty or unparsable value
getEnvNumber(e, key, defaultValue) ==
  IF ~IsSet(e, key) THEN defaultValue
  ELSE IF e[key] = <<>> THEN defaultValue
  ELSE IF isNaN(ToNumber(e[key])) THEN defaultValue
  ELSE ToNumber(e[key])

\* the console.warn call of getEnvNumber
getEnvNumberWarning(e, key) ==
  IF IsSet(e, key) /\ e[key] # <<>> /\ isNaN(ToNumber(e[key]))
  THEN <<[kind |-> "invalid number", key |-> key, errors |-> <<>>]>> ELSE <<>>

\* getEnvEnum: the default for an unset, empty or unlisted value
getEnvEnum(e, key, allowedValues, defaultValue) ==
  IF ~IsSet(e, key) THEN defaultValue
  ELSE IF e[key] = "" THEN defaultValue
  ELSE IF e[key] \in allowedValues THEN e[key]
  ELSE defaultValue

\* the console.warn call of getEnvEnum
getEnvEnumWarning(e, key, allowedValues) ==
  IF IsSet(e, key) /\ e[key] # "" /\ e[key] \notin allowedValues
  THEN <<[kind |-> "invalid enum", key |-> key, errors |-> <<>>]>> ELSE <<>>

loadGeminiConfigFromEnv(e) ==
  [model |-> getEnvEnum(e, "GEMINI_MODEL", AVAILABLE_GEMINI_MODELS,
                        DEFAULT_GEMINI_CONFIG.model),
   temperature |-> Tenths(getEnvNumber(e, "GEMINI_TEMPERATURE",
                                       Number(DEFAULT_GEMINI_CONFIG.temperature, 10))),
   maxOutputTokens |-> Whole(getEnvNumber(e, "GEMINI_MAX_TOKENS",
                                          Number(DEFAULT_GEMINI_CONFIG.maxOutputTokens, 1))),
   language |-> getEnvEnum(e, "GEMINI_LANGUAGE", SUPPORTED_LANGUAGES,
                           DEFAULT_GEMINI_CONFIG.language)]

loadPerformanceConfigFromEnv(e) ==
  [maxImageSize |-> Whole(getEnvNumber(e, "MAX_IMAGE_SIZE",
                                       Number(DEFAULT_PERFORMANCE_CONFIG.maxImageSize, 1))),
   analysisTimeout |-> Whole(getEnvNumber(e, "ANALYSIS_TIMEOUT",
                                          Number(DEFAULT_PERFORMANCE_CONFIG.analysisTimeout, 1))),
   maxConcurrentRequests |-> Whole(getEnvNumber(e, "MAX_CONCURRENT_REQUESTS",
                                                Number(DEFAULT_MAX_CONCURRENT_REQUESTS, 1)))]

\* what the two loaders print, in the order of their lookups
loadWarnings(e) ==
  getEnvEnumWarning(e, "GEMINI_MODEL", AVAILABLE_GEMINI_MODELS)
    \o getEnvNumberWarning(e, "GEMINI_TEMPERATURE")
    \o getEnvNumberWarning(e, "GEMINI_MAX_TOKENS")
    \o getEnvEnumWarning(e, "GEMINI_LANGUAGE", SUPPORTED_LANGUAGES)
    \o getEnvNumberWarning(e, "MAX_IMAGE_SIZE")
    \o getEnvNumberWarning(e, "ANALYSIS_TIMEOUT")
    \o getEnvNumberWarning(e, "MAX_CONCURRENT_REQUESTS")

\* GeminiAnalysisConfigSchema accepts the record: temperature in [0, 1],
\* maxOutputTokens positive, language one of the three
GeminiAnalysisConfigSchema(cfg) ==
  /\ cfg.temperature >= 0 /\ cfg.temperature <= 10
  /\ cfg.maxOutputTokens > 0
  /\ cfg.language \in SUPPORTED_LANGUAGES

\* PerformanceConfigSchema accepts the record
PerformanceConfigSchema(cfg) ==
  /\ cfg.maxImageSize > 0
  /\ cfg.maxBatchSize > 0
  /\ cfg.analysisTimeout > 0

\* the keys PerformanceConfigSchema.parse keeps: an object schema drops the rest
PerformanceConfigKeys ==
  {"maxImageSize", "maxBatchSize", "parallelProcessing", "analysisTimeout", "cacheResults"}

\* the errors of validateEnvironment, by variable, in the order of its checks
validateEnvironment(e) ==
  LET cfg == loadGeminiConfigFromEnv(e)
      perf == loadPerformanceConfigFromEnv(e)
  IN  (IF cfg.temperature < 0 \/ cfg.temperature > 10
       THEN <<"GEMINI_TEMPERATURE">> ELSE <<>>)
        \o (IF cfg.maxOutputTokens <= 0 THEN <<"GEMINI_MAX_TOKENS">> ELSE <<>>)
        \o (IF perf.maxImageSize <= 0 THEN <<"MAX_IMAGE_SIZE">> ELSE <<>>)
        \o (IF perf.analysisTimeout <= 0 THEN <<"ANALYSIS_TIMEOUT">> ELSE <<>>)
        \o (IF perf.maxConcurrentRequests <= 0
            THEN <<"MAX_CONCURRENT_REQUESTS">> ELSE <<>>)

\* what validateEnvironment prints: its five lookups, and then the constructor's
\* warning when there are errors
validationWarnings(e) ==
  getEnvNumberWarning(e, "GEMINI_TEMPERATURE")
    \o getEnvNumberWarning(e, "GEMINI_MAX_TOKENS")
    \o getEnvNumberWarning(e, "MAX_IMAGE_SIZE")
    \o getEnvNumberWarning(e, "ANALYSIS_TIMEOUT")
    \o getEnvNumberWarning(e, "MAX_CONCURRENT_REQUESTS")
    \o (IF validateEnvironment(e) # <<>>
        THEN <<[kind |-> "validation", key |-> "environment",
               errors |-> validateEnvironment(e)]>>
        ELSE <<>>)

\* the two schema parses of the ConfigManager constructor: a parse that rejects
\* throws, and the constructor with it
ConfigManager(e) ==
  LET g == loadGeminiConfigFromEnv(e)
      p == spread(DEFAULT_PERFORMANCE_CONFIG, loadPerformanceConfigFromEnv(e))
  IN  IF GeminiAnalysisConfigSchema(g) /\ PerformanceConfigSchema(p)
      THEN [constructed |-> "yes", geminiConfig |-> g,
            performanceConfig |-> [k \in PerformanceConfigKeys |-> p[k]]]
      ELSE [constructed |-> "threw"]

\* what the constructor prints before it returns or throws
constructorWarnings(e) ==
  IF ConfigManager(e).constructed = "yes"
  THEN loadWarnings(e) \o validationWarnings(e)
  ELSE loadWarnings(e)

\* hands out the default config
getGeminiConfigDefaults(m) == DEFAULT_GEMINI_CONFIG

\* ConfigManager.getGeminiConfig: a copy of the config
getGeminiConfig(m) == m.geminiConfig

\* ConfigManager.getMaxImageSizeBytes
getMaxImageSizeBytes(m) == m.performanceConfig.maxImageSize * 1024 * 1024

\* environments: each variable unset or set to one of a few values
EnvValues(key) ==
  CASE key = "GEMINI_MODEL" -> {"", "gemini-1.5-flash", "gpt-4"}
    [] key = "GEMINI_TEMPERATURE" -> {<<"0", ".", "2">>, <<"2">>, <<"-", "1">>, <<"a">>}
    [] key = "GEMINI_MAX_TOKENS" -> {<<"1", "0", "2", "4">>, <<"0">>, <<"1", "a">>}
    [] key = "GEMINI_LANGUAGE" -> {"en", "fr"}
    [] key = "MAX_IMAGE_SIZE" -> {<<>>, <<"0">>}
    [] key = "ANALYSIS_TIMEOUT" -> {<<" ", "6", "0">>}
    [] key = "MAX_CONCURRENT_REQUESTS" -> {<<"2">>, <<"0">>, <<"a">>}

\* the settings of one variable: not set, or set to one of its values
Settings(key) == {NoEnv} \cup { [k \in {key} |-> v] : v \in EnvValues(key) }

Envs ==
  { spread(spread(spread(spread(spread(spread(a, b), c), d), f), g), h) :
      a \in Settings("GEMINI_MODEL"), b \in Settings("GEMINI_TEMPERATURE"),
      c \in Settings("GEMINI_MAX_TOKENS"), d \in Settings("GEMINI_LANGUAGE"),
      f \in Settings("MAX_IMAGE_SIZE"), g \in Settings("ANALYSIS_TIMEOUT"),
      h \in Settings("MAX_CONCURRENT_REQUESTS") }

\* a process about to construct the ConfigManager singleton
LoadInit ==
  /\ BatchIdle
  /\ config = DEFAULT_GEMINI_CONFIG
  /\ options = DEFAULT_ANALYSIS_OPTIONS
  /\ call = NoCall
  /\ env \in Envs
  /\ manager = NoManager
  /\ warnings = <<>>
  /\ files = NoFiles
  /\ calls = <<>>

\* the first call of getConfigManager: new ConfigManager()
getConfigManager ==
  /\ manager.constructed = "no"
  /\ manager' = ConfigManager(env)
  /\ warnings' = warnings \o constructorWarnings(env)
  /\ UNCHANGED <<config, bpc, imagePaths, options, maxConcurrency, i, results,
                 promises, errorLog, spawned, windows, dataLeft, faultsLeft,
                 callVars, env, files, calls>>

LoadNext == getConfigManager

LoadSpec == LoadInit /\ [][LoadNext]_vars

(* ------------------------------ the files ------------------------------ *)
\* a path is named by a number; what it names has a file name (a sequence of
\* characters, the last component of the path), may exist, may be a directory
\* with entries, and has a size in bytes
ImageFile(name, size) ==
  [name |-> name, exists |-> TRUE, isDirectory |-> FALSE, size |-> size, entries |-> <<>>]
Directory(name, entries) ==
  [name |-> name, exists |-> TRUE, isDirectory |-> TRUE, size |-> 4096, entries |-> entries]
Missing(name) ==
  [name |-> name, exists |-> FALSE, isDirectory |-> FALSE, size |-> 0, entries |-> <<>>]

\* a small image, an image over the default limit of 10 MB, a text file, the
\* directory that holds the three, a path that names nothing, an empty directory
FileSystem ==
  <<ImageFile(<<"a", ".", "p", "n", "g">>, 1024),
    ImageFile(<<"b", ".", "P", "N", "G">>, 11 * 1024 * 1024),
    ImageFile(<<"c", ".", "t", "x", "t">>, 1024),
    Directory(<<"p", "i", "c", "s">>, <<1, 2, 3>>),
    Missing(<<"e", ".", "j", "p", "g">>),
    Directory(<<"n", "o", "n", "e">>, <<>>)>>

SUPPORTED_IMAGE_FORMATS ==
  { <<".", "j", "p", "g">>, <<".", "j", "p", "e", "g">>, <<".", "p", "n", "g">>,
    <<".", "w", "e", "b", "p">>, <<".", "g", "i", "f">> }

\* String.prototype.toLowerCase within the modelled alphabet
toLowerCase(s) ==
  [j \in 1..Len(s) |->
     CASE s[j] = "P" -> "p" [] s[j] = "N" -> "n" [] s[j] = "G" -> "g" [] OTHER -> s[j]]

\* String.prototype.lastIndexOf, 0-based, -1 when the character does not occur
lastIndexOf(s, ch) ==
  IF \E j \in 1..Len(s) : s[j] = ch
  THEN (CHOOSE j \in 1..Len(s) : s[j] = ch /\ \A k \in (j + 1)..Len(s) : s[k] # ch) - 1
  ELSE 0 - 1

\* String.prototype.slice(start): a negative start counts from the end
sliceFrom(s, start) ==
  IF start >= 0 THEN Drop(s, start)
  ELSE IF Len(s) + start > 0 THEN Drop(s, Len(s) + start) ELSE s

getFileExtension(name) == sliceFrom(toLowerCase(name), lastIndexOf(name, "."))

isImageFile(name) == getFileExtension(name) \in SUPPORTED_IMAGE_FORMATS

\* fs.access succeeds
fileExists(fsys, path) == path \in DOMAIN fsys /\ fsys[path].exists

\* fs.stat succeeds and reports a directory
isDirectory(fsys, path) == fileExists(fsys, path) /\ fsys[path].isDirectory

fileNotFound(filePath, details) ==
  GeminiMCPError("FILE_NOT_FOUND", <<"file not found: ", filePath>>,
                 [filePath |-> filePath, reason |-> details])

imageTooLarge(actualSize, maxSize, filePath) ==
  GeminiMCPError("IMAGE_TOO_LARGE", <<"image size over the limit: ", actualSize, maxSize>>,
                 [actualSize |-> actualSize, maxSize |-> maxSize, filePath |-> filePath])

invalidImageFormat(filePath) ==
  GeminiMCPError("INVALID_IMAGE_FORMAT", <<"unsupported image format: ", filePath>>,
                 [filePath |-> filePath, supportedFormats |-> SUPPORTED_IMAGE_FORMATS])

\* validateImageFile: the error it throws, NoError when it returns
validateImageFile(fsys, path, maxSizeBytes) ==
  IF ~fileExists(fsys, path) THEN fileNotFound(path, "")
  ELSE IF isDirectory(fsys, path) THEN fileNotFound(path, "Path is a directory")
  ELSE IF ~isImageFile(fsys[path].name) THEN invalidImageFormat(path)
  ELSE IF fsys[path].size > maxSizeBytes
       THEN imageTooLarge(fsys[path].size, maxSizeBytes, path)
  ELSE NoError

\* getDirectoryFiles: the error it throws, NoError when it returns
getDirectoryFilesError(fsys, directoryPath) ==
  IF ~fileExists(fsys, directoryPath) THEN fileNotFound(directoryPath, "")
  ELSE IF ~isDirectory(fsys, directoryPath)
       THEN fileNotFound(directoryPath, "Path is not a directory")
  ELSE NoError

\* getImageFilesFromDirectory with the pattern '*': the entries of the directory
\* whose name has an image extension, at most maxFiles of them when it is given
getImageFilesFromDirectory(fsys, directoryPath, maxFiles) ==
  LET imageFiles == SelectSeq(fsys[directoryPath].entries,
                              LAMBDA p : isImageFile(fsys[p].name))
  IN  IF maxFiles > 0 THEN slice(imageFiles, 0, maxFiles) ELSE imageFiles

(* ------------------------------ responses ------------------------------ *)
\* what a handler ends with: a value it returns or an error it throws
NoValue == [kind |-> "none"]
Returned(value) == [threw |-> FALSE, value |-> value, error |-> NoError]
Thrown(error) == [threw |-> TRUE, value |-> NoValue, error |-> error]
NoOutcome == [threw |-> FALSE, value |-> NoValue, error |-> NoError]

\* the error a schema's parse throws
ZodError ==
  [name |-> "ZodError", code |-> "NONE", message |-> <<"invalid", "input">>,
   details |-> <<>>]

\* every error is reported as unexpected
createErrorResponseUnexpected(error) ==
  [error |-> TRUE, code |-> "UNEXPECTED_ERROR", message |-> error.message,
   data |-> NoValue]

\* createErrorResponse: the fields of the JSON text
createErrorResponse(error) ==
  IF error.name = "GeminiMCPError"
  THEN [error |-> TRUE, code |-> error.code, message |-> error.message, data |-> NoValue]
  ELSE [error |-> TRUE, code |-> "UNEXPECTED_ERROR", message |-> error.message,
        data |-> NoValue]

\* createSuccessResponse: the JSON text of the data
createSuccessResponse(data) ==
  [error |-> FALSE, code |-> "NONE", message |-> <<>>, data |-> data]

\* withErrorHandling: try { return success(await handler) } catch { return error }
withErrorHandling(outcome) ==
  IF outcome.threw THEN createErrorResponse(outcome.error)
  ELSE createSuccessResponse(outcome.value)

(* ------------------------------ the server ------------------------------ *)
\* most tool calls the server receives in one run
MaxCalls == 2

\* a tool argument that is given
Has(args, field) == field \in DOMAIN args

\* AnalyzeImageToolSchema accepts the arguments
AnalyzeImageToolSchema(args) ==
  /\ Has(args, "image_path")
  /\ Has(args, "analysis_type") => args.analysis_type \in ANALYSIS_TYPES
  /\ Has(args, "detail_level") => args.detail_level \in DETAIL_LEVELS
  /\ Has(args, "language") => args.language \in SUPPORTED_LANGUAGES
  /\ Has(args, "temperature") => args.temperature >= 0 /\ args.temperature <= 10

\* BatchProcessImagesToolSchema accepts the arguments
BatchProcessImagesToolSchema(args) ==
  /\ Has(args, "directory_path")
  /\ Has(args, "max_files") => args.max_files > 0

\* ConfigureGeminiSettingsToolSchema accepts the arguments
ConfigureGeminiSettingsToolSchema(args) ==
  /\ Has(args, "language") => args.language \in SUPPORTED_LANGUAGES
  /\ Has(args, "temperature") => args.temperature >= 0 /\ args.temperature <= 10
  /\ Has(args, "max_tokens") => args.max_tokens > 0

\* the fields the analyze handler spreads over the manager's config: model and
\* language when they are given and not empty, temperature when it is given
overrides(args) ==
  [f \in { g \in {"model", "temperature", "language"} :
             /\ Has(args, g)
             /\ g = "temperature" \/ args[g] # "" } |-> args[f]]

\* the call takes every field from the manager's config
tempConfigNoOverrides(currentConfig, args) == currentConfig

\* tempConfig of the analyze handler
tempConfig(currentConfig, args) == spread(currentConfig, overrides(args))

\* configUpdate of the configure handler; max_tokens becomes maxOutputTokens
configUpdate(args) ==
  [f \in { g \in {"model", "temperature", "language", "maxOutputTokens"} :
             \/ g \in {"model", "language"} /\ Has(args, g) /\ args[g] # ""
             \/ g = "temperature" /\ Has(args, g)
             \/ g = "maxOutputTokens" /\ Has(args, "max_tokens") /\ args.max_tokens # 0 }
     |-> IF f = "maxOutputTokens" THEN args.max_tokens ELSE args[f]]

\* ConfigManager.mergeAnalysisOptions
mergeAnalysisOptions(opts) == spread(DEFAULT_ANALYSIS_OPTIONS, opts)

\* the options both analysis handlers build
toolOptions(analysisType, detailLevel) ==
  mergeAnalysisOptions([analysisType |-> analysisType, detailLevel |-> detailLevel,
                        includeMetadata |-> TRUE])

\* the options of an analyze call: analysis_type || 'describe', detail_level || 'standard'
analyzeOptions(args) ==
  toolOptions(IF Has(args, "analysis_type") THEN args.analysis_type ELSE "describe",
              IF Has(args, "detail_level") THEN args.detail_level ELSE "standard")

\* ConfigManager.updateGeminiConfig: the merged config replaces the old one when
\* the schema accepts it, and the parse throws otherwise
updateGeminiConfig(m, update) ==
  LET mergedConfig == spread(m.geminiConfig, update)
  IN  IF GeminiAnalysisConfigSchema(mergedConfig)
      THEN [threw |-> FALSE, manager |-> [m EXCEPT !.geminiConfig = mergedConfig]]
      ELSE [threw |-> TRUE, manager |-> m]

NoTask ==
  [analyzeImage(DEFAULT_GEMINI_CONFIG, 0, DEFAULT_ANALYSIS_OPTIONS) EXCEPT !.phase = "none"]

\* the tool calls that have returned
Completed == { d \in 1..Len(calls) : calls[d].pc = "returned" }

\* a tool call: its handler's position (validate, exec, listing, batch,
\* returned), the analyzeImage call it awaits, what the handler ended with, the
\* responses the wrapper returned, and the calls that had returned when it came
ToolCall(tool, args, pc) ==
  [tool |-> tool, args |-> args, pc |-> pc, task |-> NoTask, outcome |-> NoOutcome,
   responses |-> <<>>, earlier |-> Completed]

\* the handler of the call ends and the wrapper returns its response
Return(c, outcome) ==
  [c EXCEPT !.pc = "returned", !.outcome = outcome,
            !.responses = Append(@, withErrorHandling(outcome))]

\* arguments of the tool calls
NoArgs == [f \in {} |-> 0]
OverrideArgs ==
  { NoArgs, [model |-> "gemini-1.5-flash"], [temperature |-> 2, language |-> "en"] }
AnalyzeArgs ==
  { spread([image_path |-> 1], o) : o \in OverrideArgs }
    \cup { [image_path |-> p] : p \in 2..5 }
    \cup { [image_path |-> 1, temperature |-> 20] }
BatchArgs ==
  { [directory_path |-> 4], [directory_path |-> 4, max_files |-> 1],
    [directory_path |-> 5], [directory_path |-> 6], [directory_path |-> 4, max_files |-> 0] }
ConfigureArgs ==
  { NoArgs, [language |-> "auto"], [model |-> "gemini-1.5-pro", temperature |-> 0],
    [max_tokens |-> 1024], [temperature |-> 20] }

\* environments the server is started in
ServerEnvs ==
  { NoEnv, [k \in {"MAX_CONCURRENT_REQUESTS"} |-> <<"2">>],
    [k \in {"GEMINI_LANGUAGE"} |-> "en"] }

\* the server after its constructor: the manager loaded from the environment,
\* the client constructed with the manager's config, no tool call yet
ServerInit ==
  /\ BatchIdle
  /\ options = DEFAULT_ANALYSIS_OPTIONS
  /\ call = NoCall
  /\ env \in ServerEnvs
  /\ manager = ConfigManager(env)
  /\ warnings = constructorWarnings(env)
  /\ config = getGeminiConfig(manager)
  /\ files = FileSystem
  /\ calls = <<>>

batchVars == <<bpc, imagePaths, options, maxConcurrency, i, results, promises,
               errorLog, spawned, windows, dataLeft, faultsLeft, callVars>>

\* analyze_image_with_gemini is called: the arguments are parsed and the handler
\* awaits validateImageFile
analyze_image_with_gemini(args) ==
  /\ Len(calls) < MaxCalls
  /\ calls' = Append(calls,
                     IF AnalyzeImageToolSchema(args)
                     THEN ToolCall("analyze", args, "validate")
                     ELSE Return(ToolCall("analyze", args, "validate"), Thrown(ZodError)))
  /\ UNCHANGED <<config, batchVars, env, manager, warnings, files>>

\* the analyze handler resumes after validateImageFile: it throws the
\* validation error, or sets the client's config, builds the options and calls
\* analyzeImage, which spawns the child and awaits it
analyzeValidated(c) ==
  /\ c \in 1..Len(calls)
  /\ calls[c].tool = "analyze" /\ calls[c].pc = "validate"
  /\ LET args == calls[c].args
         invalid == validateImageFile(files, args.image_path, getMaxImageSizeBytes(manager))
         cfg == spread(config, tempConfig(getGeminiConfig(manager), args))
         t == analyzeImage(cfg, args.image_path, analyzeOptions(args))
     IN  IF invalid.code # "NONE"
         THEN /\ calls' = [calls EXCEPT ![c] = Return(@, Thrown(invalid))]
              /\ UNCHANGED <<config, spawned>>
         ELSE /\ config' = cfg
              /\ calls' = [calls EXCEPT ![c].pc = "exec", ![c].task = t]
              /\ spawned' = Append(spawned, [path |-> t.path, command |-> t.command])
  /\ UNCHANGED <<bpc, imagePaths, options, maxConcurrency, i, results, promises,
                 errorLog, windows, dataLeft, faultsLeft, callVars,
                 env, manager, warnings, files>>

\* the child of an analyze call closes; a failure is thrown through the handler
analyzeClosed(c, code) ==
  /\ c \in 1..Len(calls)
  /\ calls[c].tool = "analyze" /\ calls[c].pc = "exec"
  /\ ~calls[c].task.closed
  /\ LET t == onClose(calls[c].task, code)
     IN  calls' = [calls EXCEPT ![c] =
                     IF t.phase = "rejected"
                     THEN Return([@ EXCEPT !.task = t], Thrown(t.reason))
                     ELSE [@ EXCEPT !.task = t]]
  /\ UNCHANGED <<config, batchVars, env, manager, warnings, files>>

\* fs.stat of the metadata step of an analyze call answers; the handler returns
\* the result
analyzeReturned(c) ==
  /\ c \in 1..Len(calls)
  /\ calls[c].tool = "analyze" /\ calls[c].pc = "exec"
  /\ calls[c].task.exec = "resolved" /\ calls[c].task.phase = "pending"
  /\ LET t == onMetadata(calls[c].task, fileExists(files, calls[c].args.image_path),
                         analyzeOptions(calls[c].args))
     IN  calls' = [calls EXCEPT ![c] =
                     Return([@ EXCEPT !.task = t],
                            IF t.phase = "fulfilled" THEN Returned(t.value)
                            ELSE Thrown(t.reason))]
  /\ UNCHANGED <<config, batchVars, env, manager, warnings, files>>

\* batch_process_images is called: the arguments are parsed and the handler
\* awaits getImageFilesFromDirectory; the model runs one batch call in a run
batch_process_images(args) ==
  /\ Len(calls) < MaxCalls
  /\ \A c \in 1..Len(calls) : calls[c].tool # "batch"
  /\ calls' = Append(calls,
                     IF BatchProcessImagesToolSchema(args)
                     THEN ToolCall("batch", args, "listing")
                     ELSE Return(ToolCall("batch", args, "listing"), Thrown(ZodError)))
  /\ UNCHANGED <<config, batchVars, env, manager, warnings, files>>

\* the batch handler resumes with the listing: it throws the listing error,
\* returns the message for no image, or builds the options and calls batchAnalyze
batchListed(c) ==
  /\ c \in 1..Len(calls)
  /\ calls[c].tool = "batch" /\ calls[c].pc = "listing"
  /\ LET args == calls[c].args
         failed == getDirectoryFilesError(files, args.directory_path)
         paths == getImageFilesFromDirectory(files, args.directory_path,
                                             IF Has(args, "max_files") THEN args.max_files
                                             ELSE 10)
     IN  IF failed.code # "NONE"
         THEN /\ calls' = [calls EXCEPT ![c] = Return(@, Thrown(failed))]
              /\ UNCHANGED <<config, batchVars>>
         ELSE IF Len(paths) = 0
         THEN /\ calls' = [calls EXCEPT ![c] =
                             Return(@, Returned([kind |-> "no image files",
                                                 directory |-> args.directory_path]))]
              /\ UNCHANGED <<config, batchVars>>
         ELSE /\ batchAnalyzeCall(paths, toolOptions("describe", "standard"))
              /\ calls' = [calls EXCEPT ![c].pc = "batch"]
  /\ UNCHANGED <<env, manager, warnings, files>>

\* batchAnalyze resumes in the batch handler, which returns the counts and the
\* results when batchAnalyze returns
batchReturned(c) ==
  /\ c \in 1..Len(calls)
  /\ calls[c].tool = "batch" /\ calls[c].pc = "batch"
  /\ batchAnalyzeResumed
  /\ calls' = IF bpc' = "done"
              THEN [calls EXCEPT ![c] =
                      Return(@, Returned([kind |-> "batch",
                                          processed_count |-> Len(results'),
                                          total_found |-> Len(imagePaths),
                                          results |-> results']))]
              ELSE calls
  /\ UNCHANGED <<env, manager, warnings, files>>

\* configure_gemini_settings is called and returns: the arguments are parsed,
\* the manager's config is updated and the client is given the manager's config
configure_gemini_settings(args) ==
  /\ Len(calls) < MaxCalls
  /\ LET c == ToolCall("configure", args, "returned")
         updated == updateGeminiConfig(manager, configUpdate(args))
         stored == getGeminiConfig(updated.manager)
     IN  IF ~ConfigureGeminiSettingsToolSchema(args) \/ updated.threw
         THEN /\ calls' = Append(calls, Return(c, Thrown(ZodError)))
              /\ UNCHANGED <<config, manager>>
         ELSE /\ manager' = updated.manager
              /\ config' = spread(config, stored)
              /\ calls' = Append(calls, Return(c, Returned([kind |-> "configured",
                                                            new_config |-> stored])))
  /\ UNCHANGED <<batchVars, env, warnings, files>>

\* exit statuses of the children in the runs of the server
ServerExitCodes == {0, 1}

ServerNext ==
  \/ \E args \in AnalyzeArgs : analyze_image_with_gemini(args)
  \/ \E c \in 1..MaxCalls : analyzeValidated(c)
  \/ \E c \in 1..MaxCalls, code \in ServerExitCodes : analyzeClosed(c, code)
  \/ \E c \in 1..MaxCalls : analyzeReturned(c)
  \/ \E args \in BatchArgs : batch_process_images(args)
  \/ \E c \in 1..MaxCalls : batchListed(c)
  \/ \E k \in Slots, code \in ServerExitCodes : Close(k, code)
  \/ \E k \in Slots : MetadataOk(k)
  \/ \E c \in 1..MaxCalls : batchReturned(c)
  \/ \E args \in ConfigureArgs : configure_gemini_settings(args)

ServerSpec == ServerInit /\ [][ServerNext]_vars

(* ------------------------------- claims ------------------------------- *)
Tasks == 1..Len(promises)
N == Len(imagePaths)

\* children spawned by the call that have neither closed nor errored
InFlight == { k \in Tasks : ~promises[k].closed /\ ~promises[k].errored }

\* the 0-based window an input position belongs to
WindowOf(pos) == (pos - 1) \div maxConcurrency

ResultPaths == { results[r].path : r \in 1..Len(results) }
FailedPaths == { errorLog[r].path : r \in 1..Len(errorLog) }

\* C1: while a batchAnalyze call runs, the number of children it has spawned
\* that have neither closed nor errored never exceeds the concurrency limit.
BoundedInFlight ==
  bpc = "await" => Cardinality(InFlight) <= maxConcurrency

BoundedInFlightWitness ==
  /\ bpc = "await" /\ maxConcurrency > 0
  /\ Cardinality(InFlight) = maxConcurrency

\* C2: an item is spawned only after every item of every earlier window has
\* settled, fulfilled (its value is in results) or rejected (its error is logged).
WindowOrder ==
  bpc # "idle" =>
    \A s \in 1..Len(spawned) : \A q \in 1..N :
      WindowOf(q) < WindowOf(spawned[s].path) => q \in ResultPaths \cup FailedPaths

WindowOrderWitness ==
  /\ bpc = "await" /\ Len(windows) = 2
  /\ ResultPaths # {} /\ FailedPaths # {}
  /\ \E k \in Tasks : promises[k].phase = "pending"

\* C3: batchAnalyze never rejects; when it returns, every input was dispatched
\* and is either in the returned list or logged as failed, and when every item
\* failed the returned list is empty.
NeverRejects ==
  /\ bpc # "rejected"
  /\ bpc = "done" =>
       /\ Len(spawned) = N
       /\ ResultPaths \cup FailedPaths = 1..N
       /\ ResultPaths \cap FailedPaths = {}
       /\ (FailedPaths = 1..N => results = <<>>)

NeverRejectsWitness ==
  /\ bpc = "done" /\ N > maxConcurrency
  /\ FailedPaths = 1..N /\ results = <<>>

\* the sizes of the windows of n inputs under limit c
ExpectedWindows(n, c) ==
  [w \in 1..((n + c - 1) \div c) |-> IF w * c <= n THEN c ELSE n - (w - 1) * c]

OneSpawnPerPath ==
  /\ \A s, t \in 1..Len(spawned) : spawned[s].path = spawned[t].path => s = t
  /\ \A s \in 1..Len(spawned) :
       /\ spawned[s].path \in 1..N
       /\ spawned[s].command[5] = spawned[s].path
  /\ bpc = "done" =>
       /\ Len(spawned) = N
       /\ { spawned[s].path : s \in 1..Len(spawned) } = 1..N

OneSpawnPerPathWitness ==
  /\ bpc = "done" /\ N = MaxN
  /\ Len(spawned) = N
  /\ Len(errorLog) = 2 /\ Len(results) = N - 2

\* C6: when every child ends with a close or an error event, a running
\* batchAnalyze call eventually returns.
BatchReturns == (bpc = "await") ~> (bpc = "done")

BatchReturnsWitness ==
  /\ bpc = "done" /\ Len(windows) = 2 /\ Len(results) = N

\* C7: an invocation whose timer fired and whose child then ended fails with the
\* timeout kind ANALYSIS_TIMEOUT.
TimeoutIsAnalysisTimeout ==
  \A k \in Tasks :
    (promises[k].killed /\ promises[k].settledBy = "close" /\ promises[k].exec = "rejected")
      => promises[k].reason.code = "ANALYSIS_TIMEOUT"

\* the outcome of a settled invocation, read off its own child's events
OwnOutcome(t) ==
  /\ t.exec = "pending" => t.phase = "pending" /\ ~t.closed /\ ~t.errored
  /\ t.exec # "pending" =>
       \/ /\ t.settledBy = "close" /\ t.closed
          /\ IF t.exitCode = 0
             THEN /\ t.exec = "resolved"
                  /\ t.phase = "fulfilled" => t.value.description = Trim(t.stdout)
             ELSE /\ t.phase = "rejected"
                  /\ t.reason.details.stderr = t.stderr
                  /\ t.reason.details.stdout = t.stdout
                  /\ t.reason.details.code = t.exitCode
       \/ /\ t.settledBy = "error" /\ t.errored
          /\ t.phase = "rejected"
          /\ t.reason.details.originalError \in ErrorMessages

\* C8: within a window an event of one invocation changes no sibling, and every
\* settled invocation's outcome comes from its own child's events only.
SiblingIndependence ==
  /\ [](\A k \in Tasks : OwnOutcome(promises[k]))
  /\ [][(bpc = "await" /\ bpc' = "await" /\ i' = i) =>
          \A j, k \in Tasks :
            (j # k /\ promises'[k] # promises[k]) => promises'[j] = promises[j]]_vars

SiblingIndependenceWitness ==
  \E j, k \in Tasks :
    /\ promises[j].killed /\ promises[j].phase = "rejected"
    /\ promises[k].phase = "fulfilled" /\ promises[k].value.description # <<>>

\* r is s without its leading and trailing whitespace
IsTrimOf(r, s) ==
  \E a, b \in 0..Len(s) :
    /\ a <= b
    /\ r = SubSeq(s, a + 1, b)
    /\ \A j \in 1..a : IsWhitespace(s[j])
    /\ \A j \in (b + 1)..Len(s) : IsWhitespace(s[j])
    /\ r # <<>> => ~IsWhitespace(r[1]) /\ ~IsWhitespace(r[Len(r)])

\* C9: an invocation whose child closes with status 0 (no error event before)
\* resolves with its standard output stripped of leading and trailing
\* whitespace, whatever was written to standard error.
ExitZeroResolvesTrimmed ==
  \A k \in Tasks :
    (promises[k].closed /\ promises[k].exitCode = 0 /\ ~promises[k].errored)
      => /\ promises[k].exec = "resolved"
         /\ IsTrimOf(promises[k].raw, promises[k].stdout)
         /\ promises[k].phase = "fulfilled" =>
              promises[k].value.description = promises[k].raw

ExitZeroResolvesTrimmedWitness ==
  \E k \in Tasks :
    /\ promises[k].closed /\ promises[k].exitCode = 0
    /\ promises[k].stderr # <<>>
    /\ promises[k].raw # <<>> /\ promises[k].raw # promises[k].stdout
    /\ promises[k].phase = "fulfilled"

HasAuthPhrase(stderr) ==
  Includes(stderr, <<"Authentication", "failed">>) \/ Includes(stderr, <<"Unauthorized">>)

HasRatePhrase(stderr) ==
  Includes(stderr, <<"Rate", "limit">>) \/ Includes(stderr, <<"quota">>)

\* C10: an invocation whose child closes with a nonzero or null status (no error
\* event before) fails with the authentication kind when stderr has an
\* authentication phrase, else the rate-limit kind when it has a rate-limit or
\* quota phrase, else the generic kind; the error carries code, stderr, stdout.
ClassifiedByStderr ==
  \A k \in Tasks :
    (promises[k].closed /\ promises[k].exitCode # 0 /\ ~promises[k].errored)
      => /\ promises[k].phase = "rejected"
         /\ promises[k].reason.code =
              IF HasAuthPhrase(promises[k].stderr) THEN "GEMINI_AUTH_ERROR"
              ELSE IF HasRatePhrase(promises[k].stderr) THEN "RATE_LIMIT_EXCEEDED"
              ELSE "NETWORK_ERROR"
         /\ promises[k].reason.details =
              [stderr |-> promises[k].stderr, stdout |-> promises[k].stdout,
               code |-> promises[k].exitCode]

ClassifiedByStderrWitness ==
  \E k \in Tasks :
    /\ promises[k].closed /\ promises[k].exitCode = 1
    /\ Includes(promises[k].stderr, <<"Rate", "limit">>)
    /\ promises[k].stdout # <<>>
    /\ promises[k].reason.code = "RATE_LIMIT_EXCEEDED"

\* C11 (as stated): an invocation failed by its child's error event carries the
\* timeout kind when the error's message contains 'timeout', and otherwise the
\* generic kind with a message that starts with the process-failure prefix.
ProcessErrorMessagePrefixed ==
  \A k \in Tasks :
    promises[k].settledBy = "error" =>
      IF Includes(promises[k].errorMessage, <<"timeout">>)
      THEN promises[k].execReason.code = "ANALYSIS_TIMEOUT"
      ELSE /\ promises[k].execReason.code = "NETWORK_ERROR"
           /\ Head(promises[k].execReason.message) = "process execution error: "

\* C11 (amended): an invocation failed by its child's error event carries the
\* timeout kind when the error's message contains 'timeout', and otherwise the
\* network kind whose message is the network-error prefix, then the
\* process-failure prefix, then the error's message; both carry that message as
\* originalError.
ProcessErrorClassified ==
  \A k \in Tasks :
    promises[k].settledBy = "error" =>
      /\ promises[k].execReason.details.originalError = promises[k].errorMessage
      /\ IF Includes(promises[k].errorMessage, <<"timeout">>)
         THEN promises[k].execReason.code = "ANALYSIS_TIMEOUT"
         ELSE /\ promises[k].execReason.code = "NETWORK_ERROR"
              /\ promises[k].execReason.message =
                   <<"network error: ", "process execution error: ">>
                     \o promises[k].errorMessage

ProcessErrorClassifiedWitness ==
  \E k \in Tasks :
    /\ promises[k].settledBy = "error"
    /\ ~Includes(promises[k].errorMessage, <<"timeout">>)
    /\ promises[k].phase = "rejected"
    /\ promises[k].execReason.code = "NETWORK_ERROR"

\* C12: an analyzeImage call whose process runner failed rejects with the runner's
\* classified error unchanged (kind, message, details), and that error is the one
\* of the first failing event: a later close does not replace it.
ErrorPropagatedUnchanged ==
  \A k \in Tasks :
    promises[k].exec = "rejected" =>
      /\ promises[k].phase = "rejected"
      /\ promises[k].reason = promises[k].execReason
      /\ promises[k].execReason =
           IF promises[k].settledBy = "close"
           THEN mapChildProcessError(promises[k].stderr, promises[k].stdout,
                                     promises[k].exitCode)
           ELSE mapProcessError(promises[k].errorMessage)

ErrorPropagatedUnchangedWitness ==
  \E k \in Tasks :
    /\ promises[k].settledBy = "error" /\ promises[k].closed
    /\ promises[k].exitCode = 1
    /\ promises[k].reason.code = "ANALYSIS_TIMEOUT"
    /\ promises[k].reason = promises[k].execReason

\* positions of the option flags in an argument list, after the five fixed ones
FlagPositions(args) == { j \in 6..Len(args) : j % 2 = 0 }

\* positions at which a given flag stands
PositionsOf(args, flag) == { j \in FlagPositions(args) : args[j] = flag }

DiffersFromDefault(field) == config[field] # DEFAULT_GEMINI_CONFIG[field]

\* C13: the argument list is the tool id, the prompt flag, the prompt, the file
\* flag and the path, followed by a model flag exactly when the model differs
\* from the default, a temperature flag exactly when the temperature differs and
\* a max-tokens flag exactly when maxOutputTokens differs, in that order, each
\* followed by its value; for the default config there is no such flag.
ArgumentList ==
  call.command # <<>> =>
    LET args == call.command
        n == Len(args)
    IN  /\ n >= 5 /\ (n - 5) % 2 = 0
        /\ args[1] = "@google-ai/generative-ai-cli"
        /\ args[2] = "--prompt" /\ args[3] = call.prompt
        /\ args[4] = "--file" /\ args[5] = call.imagePath
        /\ \A j \in FlagPositions(args) :
             args[j] \in {"--model", "--temperature", "--max-tokens"}
        /\ Cardinality(PositionsOf(args, "--model")) =
             IF DiffersFromDefault("model") THEN 1 ELSE 0
        /\ Cardinality(PositionsOf(args, "--temperature")) =
             IF DiffersFromDefault("temperature") THEN 1 ELSE 0
        /\ Cardinality(PositionsOf(args, "--max-tokens")) =
             IF DiffersFromDefault("maxOutputTokens") THEN 1 ELSE 0
        /\ \A j \in PositionsOf(args, "--model") : args[j + 1] = config.model
        /\ \A j \in PositionsOf(args, "--temperature") :
             args[j + 1] = numberToString(config.temperature)
        /\ \A j \in PositionsOf(args, "--max-tokens") :
             args[j + 1] = numberToString(config.maxOutputTokens)
        /\ \A j \in PositionsOf(args, "--model") :
             \A k \in PositionsOf(args, "--temperature") \cup PositionsOf(args, "--max-tokens") :
               j < k
        /\ \A j \in PositionsOf(args, "--temperature") :
             \A k \in PositionsOf(args, "--max-tokens") : j < k
        /\ (\A f \in {"model", "temperature", "maxOutputTokens"} : ~DiffersFromDefault(f))
             => n = 5

ArgumentListWitness ==
  /\ Len(call.command) = 9
  /\ config.model = DEFAULT_GEMINI_CONFIG.model
  /\ config.temperature # DEFAULT_GEMINI_CONFIG.temperature
  /\ config.maxOutputTokens # DEFAULT_GEMINI_CONFIG.maxOutputTokens
  /\ config.language # DEFAULT_GEMINI_CONFIG.language

\* the option flags that add a clause, in the order of their clauses
ClauseFlags == <<"includeConfidence", "extractColors", "detectFaces", "readQRCodes">>

ClauseOf(flag) ==
  CASE flag = "includeConfidence" -> "include confidence scores"
    [] flag = "extractColors" -> "analyse the main colors"
    [] flag = "detectFaces" -> "detect faces"
    [] flag = "readQRCodes" -> "read QR codes"

IsActive(flag) == options[flag]

ActiveClauses ==
  LET active == SelectSeq(ClauseFlags, IsActive)
  IN  [j \in 1..Len(active) |-> ClauseOf(active[j])]

\* C14: the instruction string is the language preamble ('ja' and 'en' each have
\* their own, 'auto' has none), then the base template of the analysisType, then
\* the detail-level qualifier (none for standard), then one clause per active
\* flag in the order confidence, colors, faces, QR.
InstructionString ==
  call.command # <<>> =>
    call.prompt =
      (CASE config.language = "ja" -> <<"respond in Japanese.">>
         [] config.language = "en" -> <<"Please respond in English.">>
         [] config.language = "auto" -> <<>>)
      \o <<BasePrompt(options.analysisType)>>
      \o (CASE options.detailLevel = "brief" -> <<"keep it brief">>
            [] options.detailLevel = "standard" -> <<>>
            [] options.detailLevel = "detailed" -> <<"be as detailed as possible">>)
      \o ActiveClauses

InstructionStringWitness ==
  /\ call.command # <<>>
  /\ config.language = "auto" /\ options.detailLevel = "detailed"
  /\ options.includeConfidence /\ ~options.extractColors
  /\ options.detectFaces /\ options.readQRCodes
  /\ Len(call.prompt) = 5


\* C15: an updateConfig call gives every field present in its argument the
\* argument's value and leaves every other field as it was; with an empty
\* argument the config is unchanged field for field.
PartialMerge ==
  [][updates' = updates + 1 =>
       /\ DOMAIN config' = DOMAIN config
       /\ \A f \in DOMAIN config :
            config'[f] = IF f \in DOMAIN newConfig' THEN newConfig'[f] ELSE config[f]
       /\ DOMAIN newConfig' = {} => config' = config]_vars

PartialMergeWitness ==
  /\ updates = 2
  /\ DOMAIN newConfig = {"language"}
  /\ config.language = "en"
  /\ config.model = "gemini-1.5-flash" /\ config.temperature = 2
  /\ config.maxOutputTokens = DEFAULT_GEMINI_CONFIG.maxOutputTokens

\* C16: the argument list (and the prompt in it) of every spawned process is the
\* one computed from the config held at the moment its window was dispatched; a
\* config update changes no invocation already dispatched, neither the record of
\* its spawn nor the invocation in flight.
DispatchedUnchanged ==
  [][/\ \A s \in 1..Len(spawned) : spawned'[s] = spawned[s]
     /\ \A s \in (Len(spawned) + 1)..Len(spawned') :
          spawned'[s].command =
            buildGeminiCommand(config, buildAnalysisPrompt(config, options'),
                               spawned'[s].path)
     /\ updates' # updates => promises' = promises]_vars

DispatchedUnchangedWitness ==
  /\ bpc = "await" /\ Len(spawned) = 4 /\ updates = 2
  /\ Len(spawned[1].command) = 5
  /\ Len(spawned[4].command) = 9
  /\ config.language = "en"
  /\ promises[1].command = spawned[4].command
  /\ promises[1].command[3][1] = "respond in Japanese."


\* parseAnalysisResult has returned
Parsed == call.result # NoResult

\* C17: the confidence of a returned result lies in the closed interval [0,1].
ConfidenceInUnitInterval ==
  Parsed =>
    /\ 0 <= call.result.confidence.num
    /\ call.result.confidence.num <= call.result.confidence.den

\* equality of two exact numbers
SameNumber(a, b) == a.num * b.den = b.num * a.den

\* the value a numeral denotes, as numerator and denominator
NumeralValue(numeral) ==
  CASE numeral = <<"8", "5">> -> Number(85, 1)
    [] numeral = <<"0", ".", "6">> -> Number(6, 10)
    [] numeral = <<"1">> -> Number(1, 1)
    [] numeral = <<"1", ".", "0">> -> Number(1, 1)
    [] numeral = <<"0">> -> Number(0, 1)
    [] numeral = <<"1", "5", "0">> -> Number(150, 1)
    [] numeral = <<"1", ".", "5">> -> Number(3, 2)
    [] numeral = <<"1", "0", "0">> -> Number(100, 1)

\* what confidence extraction is to give for a labeled value
NormalizedValue(v) == IF v.num > v.den THEN Number(v.num, v.den * 100) ELSE v

\* C18: without includeConfidence the confidence is the default 0.8; with it, a
\* text "label, optional colon, optional whitespace, numeral, optional percent
\* sign" gives the numeral's value divided by 100 when it is greater than 1 and
\* the value itself when it is at most 1 (85% and 85 give 0.85, 0.6 gives 0.6),
\* and a text without a labeled value gives the default 0.8.
ConfidenceRule ==
  Parsed =>
    LET raw == call.rawResult
        confidence == call.result.confidence
    IN  /\ ~options.includeConfidence => confidence = Number(8, 10)
        /\ options.includeConfidence =>
             /\ \A colon \in {<<>>, <<":">>, <<FW_COLON>>},
                   space \in {<<>>, <<" ">>, <<" ", "\n">>},
                   numeral \in Numerals,
                   percent \in {<<>>, <<"%">>, <<FW_PERCENT>>} :
                  raw = <<LABEL_CONFIDENCE>> \o colon \o space \o numeral \o percent
                    => SameNumber(confidence, NormalizedValue(NumeralValue(numeral)))
             /\ raw = <<LABEL_CONFIDENCE, ":", " ", "8", "5", "%">>
                  => SameNumber(confidence, Number(85, 100))
             /\ raw = <<LABEL_CONFIDENCE, ":", " ", "8", "5">>
                  => SameNumber(confidence, Number(85, 100))
             /\ raw = <<LABEL_CONFIDENCE, ":", " ", "0", ".", "6">>
                  => SameNumber(confidence, Number(6, 10))
             /\ (\A p \in 1..Len(raw) : raw[p] # LABEL_CONFIDENCE \/
                                        \A q \in (p + 1)..Len(raw) : raw[q] \notin Digits)
                  => confidence = Number(8, 10)

ConfidenceRuleWitness ==
  /\ Parsed /\ options.includeConfidence
  /\ call.rawResult = <<LABEL_CONFIDENCE, ":", " ", "0", ".", "6">>
  /\ SameNumber(call.result.confidence, Number(6, 10))


\* the lines of a text, in order: the runs between its newlines
Breaks(t) == { p \in 1..Len(t) : t[p] = "\n" }

NthBreak(t, n) ==
  IF n = 0 THEN 0
  ELSE IF n > Cardinality(Breaks(t)) THEN Len(t) + 1
  ELSE CHOOSE p \in Breaks(t) : Cardinality({ q \in Breaks(t) : q < p }) = n - 1

LinesOf(t) ==
  [n \in 1..(Cardinality(Breaks(t)) + 1) |->
     SubSeq(t, NthBreak(t, n - 1) + 1, NthBreak(t, n) - 1)]

\* the line starts with one of -, *, •
BulletMarker(line) == Len(line) >= 1 /\ line[1] \in {"-", "*", BULLET}

\* length of the marker N. the line starts with, 0 when it starts with none
NumberMarkerLen(line) ==
  LET ends == { d \in 1..(Len(line) - 1) :
                  /\ \A j \in 1..d : line[j] \in Digits
                  /\ line[d + 1] = "." }
  IN  IF ends = {} THEN 0 ELSE 1 + CHOOSE d \in ends : TRUE

BeginsWithMarker(line) == BulletMarker(line) \/ NumberMarkerLen(line) > 0

\* the line without the marker it begins with, trimmed
WithoutMarker(line) ==
  Trim(Drop(line, IF BulletMarker(line) THEN 1 ELSE NumberMarkerLen(line)))

\* C19 (as stated): for detect_objects the objects are, in line order and with
\* duplicates kept, the lines that begin with a bullet marker (-, *, •) or a
\* numbered marker (N.), each without that marker and trimmed, empty results
\* discarded.
ListByMarker ==
  (Parsed /\ options.analysisType = "detect_objects") =>
    LET kept == SelectSeq(LinesOf(call.rawResult), BeginsWithMarker)
    IN  call.result.objects =
          SelectSeq([j \in 1..Len(kept) |-> WithoutMarker(kept[j])], NonEmpty)

\* the marker is followed by at least one whitespace character
BeginsWithSpacedMarker(line) ==
  \/ BulletMarker(line) /\ Len(line) >= 2 /\ line[2] \in Whitespace
  \/ /\ NumberMarkerLen(line) > 0
     /\ Len(line) > NumberMarkerLen(line)
     /\ line[NumberMarkerLen(line) + 1] \in Whitespace

\* the line without its bullet marker and, after that, without the numbered
\* marker that then begins it, each with the whitespace that follows; trimmed
WithoutSpacedMarkers(line) ==
  LET a == IF BulletMarker(line) /\ BeginsWithSpacedMarker(line)
           THEN TrimStart(Drop(line, 1)) ELSE line
      b == IF NumberMarkerLen(a) > 0 /\ BeginsWithSpacedMarker(a)
           THEN Drop(a, NumberMarkerLen(a)) ELSE a
  IN  Trim(b)

\* C19 (amended): for detect_objects the objects are, in line order and with
\* duplicates kept, the lines that begin with a bullet marker (-, *, •) or a
\* numbered marker (digits and a dot) followed by at least one whitespace
\* character, each without its bullet marker and then without a numbered marker
\* now at its start (with the whitespace after them) and trimmed, empty results
\* discarded; the example "- apple / * banana / 1. cherry / notaitem" gives
\* apple, banana, cherry.
ListBySpacedMarker ==
  (Parsed /\ options.analysisType = "detect_objects") =>
    /\ LET kept == SelectSeq(LinesOf(call.rawResult), BeginsWithSpacedMarker)
       IN  call.result.objects =
             SelectSeq([j \in 1..Len(kept) |-> WithoutSpacedMarkers(kept[j])], NonEmpty)
    /\ call.rawResult = ListExample =>
         call.result.objects =
           << <<"a", "p", "p", "l", "e">>, <<"b", "a", "n", "a", "n", "a">>,
              <<"c", "h", "e", "r", "r", "y">> >>

ListBySpacedMarkerWitness ==
  /\ Parsed /\ options.analysisType = "detect_objects"
  /\ call.rawResult = <<"-", " ", "a", "\n", "-", " ", "a">>
  /\ call.result.objects = << <<"a">>, <<"a">> >>


\* texts with both fields, and the values of each field in them
CategoryExamples ==
  { [text |-> <<LABEL_TAG, ":", " ", "x", FW_COMMA, " ", "y", "\n",
                LABEL_CATEGORY, FW_COLON, "a", ",", "b", " ">>,
     category |-> << <<"a">>, <<"b">> >>, tag |-> << <<"x">>, <<"y">> >>],
    [text |-> <<LABEL_CATEGORY, ":", "a", "\n", LABEL_TAG, ":", "x">>,
     category |-> << <<"a">> >>, tag |-> << <<"x">> >>] }

\* C20: the result's description is the raw text; ocr copies the raw text into
\* text and leaves objects empty; detect_objects fills objects by list
\* extraction and classify by category extraction, the category values before
\* the tag values, both leaving text empty; describe leaves objects and text
\* empty; colors stay empty unless the request asks for them; text is non-empty
\* only for ocr.
TypeDispatch ==
  Parsed =>
    LET raw == call.rawResult
        r == call.result
    IN  /\ r.description = raw
        /\ options.analysisType = "ocr" => r.text = raw /\ r.objects = <<>>
        /\ options.analysisType = "detect_objects" =>
             r.text = <<>> /\ r.objects = extractObjectsList(raw)
        /\ options.analysisType = "classify" =>
             /\ r.text = <<>>
             /\ r.objects = extractCategories(raw)
             /\ \A ex \in CategoryExamples :
                  raw = ex.text => r.objects = ex.category \o ex.tag
             /\ (\A p \in 1..Len(raw) : raw[p] \notin {LABEL_CATEGORY, LABEL_TAG})
                  => r.objects = <<>>
        /\ options.analysisType = "describe" => r.text = <<>> /\ r.objects = <<>>
        /\ ~options.extractColors => r.colors = <<>>
        /\ r.text # <<>> => options.analysisType = "ocr"

TypeDispatchWitness ==
  /\ Parsed /\ options.analysisType = "classify"
  /\ call.rawResult = <<LABEL_TAG, ":", " ", "x", FW_COMMA, " ", "y", "\n",
                        LABEL_CATEGORY, FW_COLON, "a", ",", "b", " ">>
  /\ call.result.objects = << <<"a">>, <<"b">>, <<"x">>, <<"y">> >>
  /\ call.result.text = <<>>



\* C21: the result extractor never fails: once the invocation has resolved with
\* a raw text, analyzeImage does not reject, and the result it returns has the
\* zero value in every field whose pattern did not match.
ExtractorNeverFails ==
  \A k \in Tasks :
    promises[k].exec = "resolved" =>
      /\ promises[k].phase # "rejected"
      /\ promises[k].phase = "fulfilled" =>
           /\ promises[k].value.description = promises[k].raw
           /\ promises[k].value.objects = <<>>
           /\ promises[k].value.colors = <<>>
           /\ promises[k].value.confidence = DEFAULT_CONFIDENCE_SCORE

\* the part of a task the promise of executeGeminiCommand carries
Outcome(t) == <<t.exec, t.raw, t.execReason, t.settledBy>>

\* C27: the list batchAnalyze returns is a subsequence of the input in input
\* order, within a window and across windows, whatever the order in which the
\* children end.
InputOrder ==
  /\ \A r \in 1..Len(results) : results[r].path \in 1..N
  /\ \A a, b \in 1..Len(results) : a < b => results[a].path < results[b].path

InputOrderWitness ==
  /\ bpc = "done" /\ N = MaxN /\ Len(windows) = 2
  /\ Len(results) = N - 1
  /\ <<results[1].path, results[2].path, results[3].path>> = <<1, 3, 4>>

\* C28: an invocation settles once, by the first of its close and error events:
\* on a settled invocation neither handler nor a data handler changes the
\* outcome, and no step of a run changes the outcome of a settled invocation.
SettlesOnce ==
  /\ [](\A k \in Tasks :
          promises[k].exec # "pending" =>
            /\ promises[k].settledBy \in {"close", "error"}
            /\ promises[k].settledBy = "close" => promises[k].closed
            /\ promises[k].settledBy = "error" => promises[k].errored
            /\ \A code \in ExitCodes :
                 Outcome(onClose(promises[k], code)) = Outcome(promises[k])
            /\ \A message \in ErrorMessages :
                 Outcome(onError(promises[k], message)) = Outcome(promises[k])
            /\ \A data \in StdoutChunks :
                 Outcome(onStdoutData(promises[k], data)) = Outcome(promises[k])
            /\ \A data \in StderrChunks :
                 Outcome(onStderrData(promises[k], data)) = Outcome(promises[k]))
  /\ [][\A k \in Tasks :
          (promises[k].exec # "pending" /\ bpc' = "await" /\ windows' = windows)
            => Outcome(promises'[k]) = Outcome(promises[k])]_vars

SettlesOnceWitness ==
  \E k \in Tasks :
    /\ promises[k].errored /\ promises[k].closed
    /\ promises[k].settledBy = "error" /\ promises[k].exitCode = 0
    /\ promises[k].stdout # <<>>
    /\ promises[k].exec = "rejected"


\* console.warn was called about the variable
Warned(key) == \E w \in 1..Len(warnings) : warnings[w].key = key

\* the variable is set to something that is not a number in the given range
InvalidNumber(key, lowest, highest, lowestAllowed) ==
  /\ IsSet(env, key) /\ env[key] # <<>>
  /\ LET x == ToNumber(env[key])
     IN  \/ isNaN(x)
         \/ x.num < lowest * x.den
         \/ x.num > highest * x.den
         \/ (~lowestAllowed /\ x.num = lowest * x.den)

\* the variable is set to a word that is not one of the allowed ones
InvalidEnum(key, allowedValues) ==
  IsSet(env, key) /\ env[key] # "" /\ env[key] \notin allowedValues

\* C23: constructing the ConfigManager succeeds for every value of the
\* variables, each invalid value is replaced by its default with a warning, and
\* the resulting Gemini config satisfies the schema.
LoadingFallsBack ==
  manager.constructed # "no" =>
    /\ manager.constructed = "yes"
    /\ GeminiAnalysisConfigSchema(manager.geminiConfig)
    /\ InvalidEnum("GEMINI_MODEL", AVAILABLE_GEMINI_MODELS) =>
         manager.geminiConfig.model = DEFAULT_GEMINI_CONFIG.model /\ Warned("GEMINI_MODEL")
    /\ InvalidEnum("GEMINI_LANGUAGE", SUPPORTED_LANGUAGES) =>
         /\ manager.geminiConfig.language = DEFAULT_GEMINI_CONFIG.language
         /\ Warned("GEMINI_LANGUAGE")
    /\ InvalidNumber("GEMINI_TEMPERATURE", 0, 1, TRUE) =>
         /\ manager.geminiConfig.temperature = DEFAULT_GEMINI_CONFIG.temperature
         /\ Warned("GEMINI_TEMPERATURE")
    /\ InvalidNumber("GEMINI_MAX_TOKENS", 0, 1000000, FALSE) =>
         /\ manager.geminiConfig.maxOutputTokens = DEFAULT_GEMINI_CONFIG.maxOutputTokens
         /\ Warned("GEMINI_MAX_TOKENS")
    /\ InvalidNumber("MAX_IMAGE_SIZE", 0, 1000000, FALSE) =>
         /\ manager.performanceConfig.maxImageSize = DEFAULT_PERFORMANCE_CONFIG.maxImageSize
         /\ Warned("MAX_IMAGE_SIZE")
    /\ InvalidNumber("ANALYSIS_TIMEOUT", 0, 1000000, FALSE) =>
         /\ manager.performanceConfig.analysisTimeout
              = DEFAULT_PERFORMANCE_CONFIG.analysisTimeout
         /\ Warned("ANALYSIS_TIMEOUT")


\* C22: every path a process was spawned for, by the single-image tool or by the
\* batch tool, exists, is not a directory, has a supported image extension and is
\* not over the configured maximum size.
CheckedBeforeSpawn ==
  \A s \in 1..Len(spawned) :
    /\ files[spawned[s].path].exists
    /\ ~files[spawned[s].path].isDirectory
    /\ getFileExtension(files[spawned[s].path].name) \in SUPPORTED_IMAGE_FORMATS
    /\ files[spawned[s].path].size <= manager.performanceConfig.maxImageSize * 1024 * 1024

\* C24: the concurrency limit batchAnalyze uses is the value of
\* MAX_CONCURRENT_REQUESTS when that is set to a positive number, and 3 when it
\* is not set.
ConcurrencyFromSetting ==
  bpc # "idle" =>
    /\ ~IsSet(env, "MAX_CONCURRENT_REQUESTS") => maxConcurrency = 3
    /\ (/\ IsSet(env, "MAX_CONCURRENT_REQUESTS")
        /\ ~isNaN(ToNumber(env["MAX_CONCURRENT_REQUESTS"]))
        /\ ToNumber(env["MAX_CONCURRENT_REQUESTS"]).num > 0)
         => maxConcurrency = Whole(ToNumber(env["MAX_CONCURRENT_REQUESTS"]))

\* the response of a tool call that has returned
ResponseOf(c) == calls[c].responses[1]

\* C25: a wrapped handler never rejects and returns exactly one response: the
\* success response with the handler's result when the handler returns, and an
\* error response with error = true and the error's code (the GeminiMCPError
\* code, UNEXPECTED_ERROR for any other error) when the handler throws.
WrapperResponds ==
  \A c \in 1..Len(calls) :
    /\ Len(calls[c].responses) <= 1
    /\ calls[c].pc = "returned" <=> Len(calls[c].responses) = 1
    /\ calls[c].pc = "returned" =>
         /\ calls[c].outcome.threw =>
              /\ ResponseOf(c).error = TRUE
              /\ ResponseOf(c).code =
                   IF calls[c].outcome.error.name = "GeminiMCPError"
                   THEN calls[c].outcome.error.code ELSE "UNEXPECTED_ERROR"
         /\ ~calls[c].outcome.threw =>
              /\ ResponseOf(c).error = FALSE
              /\ ResponseOf(c).data = calls[c].outcome.value
         /\ calls[c].task.phase = "fulfilled" =>
              ResponseOf(c).error = FALSE /\ ResponseOf(c).data = calls[c].task.value
         /\ calls[c].task.phase = "rejected" =>
              ResponseOf(c).error = TRUE /\ ResponseOf(c).code = calls[c].task.reason.code

WrapperRespondsWitness ==
  /\ Len(calls) = 2
  /\ calls[1].pc = "returned" /\ calls[2].pc = "returned"
  /\ calls[1].task.phase = "fulfilled" /\ ResponseOf(1).error = FALSE
  /\ calls[2].tool = "analyze" /\ ResponseOf(2).code = "IMAGE_TOO_LARGE"

\* the argument list batchAnalyze or analyzeImage builds for a path from the
\* manager's config
FromManager(opts, imagePath) ==
  buildGeminiCommand(getGeminiConfig(manager),
                     buildAnalysisPrompt(getGeminiConfig(manager), opts), imagePath)

\* every other call had returned when the call came
CameLast(c) == \A d \in 1..Len(calls) : d # c => d \in calls[c].earlier

\* C26: the overrides of an analyze call are temporary: a batch call, and an
\* analyze call without overrides, that comes after the other calls have
\* completed spawns processes built from the manager's config.
OverridesTemporary ==
  [][\A c \in 1..Len(calls) :
       /\ (calls[c].pc = "listing" /\ calls'[c].pc = "batch" /\ CameLast(c)) =>
            \A k \in 1..Len(promises') :
              promises'[k].command = FromManager(options', promises'[k].path)
       /\ (/\ calls[c].pc = "validate" /\ calls'[c].pc = "exec"
           /\ DOMAIN overrides(calls[c].args) = {}
           /\ CameLast(c))
            => calls'[c].task.command
                 = FromManager(analyzeOptions(calls[c].args), calls[c].args.image_path)]_vars

\* the config an analyze call asks for: its own overrides over the manager's config
OwnConfig(args) ==
  [f \in {"model", "temperature", "maxOutputTokens", "language"} |->
     IF f \in DOMAIN args THEN args[f] ELSE manager.geminiConfig[f]]

\* C29: under every interleaving of the tool calls, the process of an analyze
\* call is built, prompt and argument list, from that call's own overrides
\* merged over the manager's config, and is the process recorded as spawned for
\* it; once built it does not change.
OwnOverrides ==
  [][\A c \in 1..Len(calls) :
       /\ (calls[c].pc = "validate" /\ calls'[c].pc = "exec") =>
            /\ calls'[c].task.command =
                 buildGeminiCommand(OwnConfig(calls[c].args),
                                    buildAnalysisPrompt(OwnConfig(calls[c].args),
                                                        analyzeOptions(calls[c].args)),
                                    calls[c].args.image_path)
            /\ spawned' = Append(spawned, [path |-> calls[c].args.image_path,
                                           command |-> calls'[c].task.command])
       /\ calls[c].pc = "exec" => calls'[c].task.command = calls[c].task.command]_vars

OwnOverridesWitness ==
  /\ Len(calls) = 2
  /\ calls[1].pc = "exec" /\ calls[2].pc = "exec"
  /\ ~calls[1].task.closed /\ ~calls[2].task.closed
  /\ calls[1].args = [image_path |-> 1, temperature |-> 2, language |-> "en"]
  /\ calls[2].args = [image_path |-> 1, model |-> "gemini-1.5-flash"]
  /\ calls[1].task.command[3][1] = "Please respond in English."
  /\ calls[1].task.command[6] = "--temperature"
  /\ calls[2].task.command[3][1] = "respond in Japanese."
  /\ calls[2].task.command[6] = "--model"

\* the update a configure call asks for is one the schema rejects
InvalidUpdate(args) ==
  \/ Has(args, "temperature") /\ (args.temperature < 0 \/ args.temperature > 10)
  \/ Has(args, "max_tokens") /\ args.max_tokens <= 0
  \/ Has(args, "language") /\ args.language \notin SUPPORTED_LANGUAGES

\* C30: when a configure call returns successfully the client's config equals
\* the manager's config field for field and both satisfy the schema; an invalid
\* update returns an error response and leaves both configs unchanged.
ConfigureSynchronizes ==
  [][(Len(calls') = Len(calls) + 1 /\ calls'[Len(calls')].tool = "configure") =>
       /\ calls'[Len(calls')].pc = "returned"
       /\ Len(calls'[Len(calls')].responses) = 1
       /\ InvalidUpdate(calls'[Len(calls')].args) =>
            calls'[Len(calls')].responses[1].error = TRUE
       /\ calls'[Len(calls')].responses[1].error = TRUE =>
            config' = config /\ manager' = manager
       /\ calls'[Len(calls')].responses[1].error = FALSE =>
            /\ DOMAIN config' = DOMAIN manager'.geminiConfig
            /\ \A f \in DOMAIN config' : config'[f] = manager'.geminiConfig[f]
            /\ GeminiAnalysisConfigSchema(config')
            /\ GeminiAnalysisConfigSchema(manager'.geminiConfig)
            /\ calls'[Len(calls')].responses[1].data.new_config = config']_vars

ConfigureSynchronizesWitness ==
  /\ Len(calls) = 2
  /\ calls[1].tool = "analyze" /\ calls[1].pc = "exec"
  /\ calls[1].args = [image_path |-> 1, model |-> "gemini-1.5-flash"]
  /\ calls[2].tool = "configure" /\ calls[2].args = [language |-> "auto"]
  /\ ResponseOf(2).error = FALSE
  /\ config = manager.geminiConfig
  /\ config.language = "auto" /\ config.model = DEFAULT_GEMINI_CONFIG.model

====
